---- MODULE Spec2Model ----
(***************************************************************************)
(* Model of the echora server core: the persistence facade (users, bans,   *)
(* mutes, invites, settings, moderation log), the in-process state hub     *)
(* (presence, voice states, broadcast planes), the per-connection          *)
(* WebSocket loop, the SFU registry and the moderation / registration      *)
(* handlers.                                                               *)
(***************************************************************************)
EXTENDS Integers, Sequences, FiniteSets, TLC

\* ---------------------------------------------------------------- bounds
NumUsers == 3
NumConns == 2
NumClients == 1
NumTalkers == 2
NumSessions == 1
NumApplicants == 2
NumChans == 2
NumRegs == 2
NumCodes == 1
NumTransports == 2
NumProducers == 1
NumConsumers == 1
MaxTime == 1
MaxHours == 1
MaxModLog == 2
MaxInviteUses == 2
MaxMessages == 2
GlobalCap == 2
ChannelCap == 2
NumMessageIds == 3
NumAttachments == 1
NumPosts == 2
MaxBurst == 7
NumRouterCalls == 2
NumRouters == 3
NumLockers == 2
NumChallenges == 2
NumRateCalls == 2
NumSfuCalls == 1
NumLeaveCalls == 1
\* tokens and seconds are counted in steps of 1/RateScale
RateScale == 2
MaxRateClock == 5
MaxInstant == 18
LastIssue == 2
\* the monotonic clock counts steps of 20 seconds
SweepPeriod == 3
ChallengeTtl == 15

Users == 1..NumUsers
Conns == 1..NumConns
Chans == 1..NumChans
Regs == 1..NumRegs
Codes == 1..NumCodes
MessageIds == 1..NumMessageIds
Aids == 1..NumAttachments
Posts == 1..NumPosts
Tids == 1..NumTransports
RouterCalls == 1..NumRouterCalls
Lockers == 1..NumLockers
Challenges == 1..NumChallenges
RateCalls == 1..NumRateCalls
SfuCalls == 1..NumSfuCalls
LeaveCalls == 1..NumLeaveCalls

\* ------------------------------------------------------- program constants
Member == 0
Moderator == 1
Admin == 2
Owner == 3
MAX_MESSAGE_LENGTH == 4000
MAX_ATTACHMENTS_PER_MESSAGE == 5
MESSAGE_RATE_LIMIT == 5
MESSAGE_RATE_REFILL_PER_SEC == 1
Roles == {Member, Moderator, Admin, Owner}

\* encodings of absent values
NoUser == 0 - 1
NoRow == 0 - 2
Never == 0 - 1
NoCode == 0
NoMax == 0 - 1
BadToken == 0
NoChan == 0

VARIABLES
    \* persistence (survives a restart)
    user_role,          \* users.role, NoUser when the row does not exist
    user_order,         \* user ids ordered by created_at
    ban_expires,        \* bans.expires_at per user: NoRow, Never or a time
    mute_expires,       \* mutes.expires_at per user: NoRow, Never or a time
    invites,            \* invites rows by code
    registration_mode,  \* server_settings['registration_mode']
    mod_log,            \* moderation_log, append-only
    messages,           \* messages rows
    next_message,       \* the id the next inserted message receives
    attachments,        \* attachments rows by id
    preview_fetches,    \* message ids for which a link-preview task was spawned
    now,                \* wall clock (NOW())
    \* state hub (in memory)
    online_users,
    voice_states,
    global_broadcast,   \* values retained by the global plane for its receivers
    channel_broadcasts, \* per channel: sender present, retained values
    \* per WebSocket connection task
    pc,
    conn_user,
    global_rx,
    current_channel,
    broadcast_rx,
    left_channels,
    \* SFU registry
    connections,
    transports,
    channel_connections,
    user_connections,
    producers,
    consumers,
    next_transport,
    next_producer,
    next_consumer,
    worker_calls,       \* calls delegated to the media worker
    banned_users,       \* in-memory ban cache
    muted_users,        \* in-memory mute cache
    \* in-flight register requests
    reg_pc,
    reg_req,
    \* in-flight message pipelines (after the insert, before the attachment link)
    posts,
    \* requests the shared http_client has sent
    http_requests,
    \* SfuService::routers, the routers the worker has created, the router each
    \* transport was created on, and the calls inside get_or_create_router
    routers,
    created_routers,
    transport_router,
    router_calls,
    \* DashMap shard locks of voice_states: per thread, the guards it holds and
    \* the lock operations its current call has still to perform
    lock_held,
    lock_prog,
    \* WebAuthn challenge tables, the user_passkeys table, the monotonic clock
    \* and the next tick of the sweep's interval; ceremonies records for every
    \* challenge when it was issued and how many ceremonies it completed
    \* AppState::message_rate_limits, the calls of check_message_rate_limit in
    \* progress and the monotonic clock they read
    \* produce and consume calls that wait for the media worker
    sfu_calls,
    \* leave_voice_channel calls between their two accesses to voice_states
    leave_calls,
    \* the connections whose channel receiver outlives its sender, and the
    \* channels whose row has been deleted
    rx_closed,
    deleted_channels,
    \* the messages whose message event was sent on their channel's plane, and
    \* per message the number of link_preview_ready events sent on it
    announced,
    previewed,
    \* the rows of the reactions table: <<message_id, user_id, emoji>>
    reactions,
    message_rate_limits,
    rate_calls,
    rate_clock,
    webauthn_reg_state,
    webauthn_auth_state,
    user_passkeys,
    instant,
    next_sweep,
    ceremonies,
    \* observation of the last completed step (response, publications, frames)
    last

msg_vars == <<messages, next_message, attachments, preview_fetches, posts>>
db_vars == <<user_role, user_order, ban_expires, mute_expires, invites,
             registration_mode, mod_log, msg_vars>>
cache_vars == <<banned_users, muted_users>>
hub_vars == <<online_users, voice_states, global_broadcast, channel_broadcasts>>
conn_vars == <<pc, conn_user, global_rx, current_channel, broadcast_rx, left_channels>>
sfu_vars == <<connections, transports, channel_connections, user_connections,
              producers, consumers, next_transport, next_producer, next_consumer,
              worker_calls>>
reg_vars == <<reg_pc, reg_req>>
router_vars == <<routers, created_routers, transport_router, router_calls>>
lock_vars == <<lock_held, lock_prog>>
passkey_vars == <<webauthn_reg_state, webauthn_auth_state, user_passkeys, instant,
                  next_sweep, ceremonies>>
rate_vars == <<message_rate_limits, rate_calls, rate_clock>>
chan_vars == <<rx_closed, deleted_channels>>
preview_vars == <<announced, previewed>>
svc_vars == <<http_requests, router_vars, lock_vars, passkey_vars, rate_vars, sfu_calls, leave_calls, chan_vars,
    preview_vars, reactions>>
\* svc_vars without the variables of one service
svc_but_http == <<router_vars, lock_vars, passkey_vars, rate_vars, sfu_calls, leave_calls, chan_vars,
    preview_vars, reactions>>
svc_but_router == <<http_requests, lock_vars, passkey_vars, rate_vars, sfu_calls, leave_calls, chan_vars,
    preview_vars, reactions>>
svc_but_lock == <<http_requests, router_vars, passkey_vars, rate_vars, sfu_calls, leave_calls, chan_vars,
    preview_vars, reactions>>
svc_but_passkey == <<http_requests, router_vars, lock_vars, rate_vars, sfu_calls, leave_calls, chan_vars,
    preview_vars, reactions>>
svc_but_sfu == <<http_requests, router_vars, lock_vars, passkey_vars, rate_vars, leave_calls, chan_vars,
    preview_vars, reactions>>
svc_but_leave == <<http_requests, router_vars, lock_vars, passkey_vars, rate_vars, sfu_calls, chan_vars,
    preview_vars, reactions>>
svc_but_chan == <<http_requests, router_vars, lock_vars, passkey_vars, rate_vars, sfu_calls,
                 leave_calls, preview_vars, reactions>>
svc_but_preview == <<http_requests, router_vars, lock_vars, passkey_vars, rate_vars,
                    sfu_calls, leave_calls, chan_vars, reactions>>
svc_but_reactions == <<http_requests, router_vars, lock_vars, passkey_vars, rate_vars,
                      sfu_calls, leave_calls, chan_vars, preview_vars>>
svc_but_rate == <<http_requests, router_vars, lock_vars, passkey_vars, sfu_calls, leave_calls, chan_vars,
    preview_vars, reactions>>
vars == <<db_vars, now, hub_vars, cache_vars, conn_vars, sfu_vars, reg_vars, svc_vars, last>>

\* ---------------------------------------------------------------- helpers
Min(a, b) == IF a < b THEN a ELSE b

SetMax(S) == IF S = {} THEN 0 ELSE CHOOSE x \in S : \A y \in S : y <= x

\* the last n elements of s
Suffix(s, n) == IF n >= Len(s) THEN s ELSE SubSeq(s, Len(s) - n + 1, Len(s))

Event(type, user, chan) == [type |-> type, user_id |-> user, channel_id |-> chan]

NoReceiver == [sub |-> FALSE, behind |-> 0, lagged |-> FALSE]

\* the record of a completed step
Obs(op, conn, actor, target, chan, arg, status, emitted, frames) ==
    [op |-> op, conn |-> conn, actor |-> actor, target |-> target, chan |-> chan,
     arg |-> arg, status |-> status, emitted |-> emitted, frames |-> frames]

NoObs == Obs("init", 0, 0, 0, 0, 0, 0, <<>>, <<>>)

\* ------------------------------------------------------ persistence facade
UserExists(u) == user_role[u] # NoUser

get_user_count == Cardinality({u \in Users : UserExists(u)})

\* a row still counts at the instant it expires
ActiveRowInclusive(expires) == expires # NoRow /\ (expires = Never \/ expires >= now)

\* WHERE ... (expires_at IS NULL OR expires_at > NOW())
ActiveRow(expires) == expires # NoRow /\ (expires = Never \/ expires > now)

get_active_ban(u) == ActiveRow(ban_expires[u])

get_active_mute(u) == ActiveRow(mute_expires[u])

\* payload.duration_hours.map(|h| Utc::now() + Duration::hours(h))
ExpiresAt(hours) == IF hours = Never THEN Never ELSE now + hours

Durations == {Never} \cup (0..MaxHours)

\* ------------------------------------------------------------- permissions
require_role(user_role_, minimum) == user_role_ >= minimum

require_higher_or_equal_role(actor_role, target_role) == actor_role >= target_role

require_higher_role(actor_role, target_role) == actor_role > target_role

can_assign_role(actor_role, new_role) == new_role # Owner /\ actor_role > new_role

\* ------------------------------------------------------- broadcast planes
\* tokio broadcast: a ring of `cap` values; a receiver that is `cap` values
\* behind when another value is sent loses the oldest one and is marked lagged.
RxAfterSend(rx, cap) ==
    IF ~rx.sub THEN rx
    ELSE [sub |-> TRUE,
          behind |-> Min(rx.behind + 1, cap),
          lagged |-> rx.lagged \/ rx.behind = cap]

\* values no receiver can still read are dropped from the retained window
Retained(log, rxs) == Suffix(log, SetMax({rxs[k].behind : k \in DOMAIN rxs}))

RECURSIVE SendAll(_, _, _)
SendAll(state, evs, cap) ==
    IF evs = <<>> THEN state
    ELSE LET rxs == [k \in DOMAIN state.rx |-> RxAfterSend(state.rx[k], cap)]
         IN SendAll([log |-> Retained(Append(state.log, Head(evs)), rxs), rx |-> rxs],
                    Tail(evs), cap)

\* state.global_broadcast.send(...) for each event of evs, in order
GlobalAfter(evs) == SendAll([log |-> global_broadcast, rx |-> global_rx], evs, GlobalCap)

broadcast_global(evs) ==
    /\ global_broadcast' = GlobalAfter(evs).log
    /\ global_rx' = GlobalAfter(evs).rx

\* ------------------------------------------------------------------ clock
Tick ==
    /\ now < MaxTime
    /\ now' = now + 1
    /\ last' = Obs("tick", 0, 0, 0, 0, 0, 0, <<>>, <<>>)
    /\ UNCHANGED <<db_vars, hub_vars, conn_vars, sfu_vars, reg_vars,
                   cache_vars, svc_vars>>

\* ---------------------------------------------------------------- invites
\* granted: the number of use_invite_code calls on the code that returned Ok
NoInvite == [exists |-> FALSE, max_uses |-> NoMax, uses |-> 0, revoked |-> FALSE,
             expires_at |-> Never, granted |-> 0]

\* a usability test that admits one use too many
InviteUsableOffByOne(inv) ==
    /\ inv.exists
    /\ ~inv.revoked
    /\ (inv.max_uses = NoMax \/ inv.uses <= inv.max_uses)
    /\ (inv.expires_at = Never \/ inv.expires_at > now)

\* WHERE code = $1 AND NOT revoked AND (max_uses IS NULL OR uses < max_uses)
\*   AND (expires_at IS NULL OR expires_at > NOW())
InviteUsable(inv) ==
    /\ inv.exists
    /\ ~inv.revoked
    /\ (inv.max_uses = NoMax \/ inv.uses < inv.max_uses)
    /\ (inv.expires_at = Never \/ inv.expires_at > now)

\* an invite consumption that accepts every code
use_invite_code_any(code) ==
    [ok |-> TRUE, invites |-> invites]

\* UPDATE invites SET uses = uses + 1 WHERE ...; one statement, one row
use_invite_code(code) ==
    IF code \in Codes /\ InviteUsable(invites[code])
    THEN [ok |-> TRUE,
          invites |-> [invites EXCEPT ![code].uses = invites[code].uses + 1,
                                      ![code].granted = invites[code].granted + 1]]
    ELSE [ok |-> FALSE, invites |-> invites]

create_invite(actor, code, max, hours) ==
    /\ ~invites[code].exists
    /\ LET status == IF ~UserExists(actor) THEN 404
                     ELSE IF ~require_role(user_role[actor], Moderator) THEN 403
                     ELSE IF hours # Never /\ hours <= 0 THEN 400
                     ELSE IF max # NoMax /\ max <= 0 THEN 400
                     ELSE 200
       IN /\ invites' = IF status = 200
                        THEN [invites EXCEPT ![code] =
                                [exists |-> TRUE, max_uses |-> max, uses |-> 0,
                                 revoked |-> FALSE, expires_at |-> ExpiresAt(hours),
                                 granted |-> 0]]
                        ELSE invites
          /\ last' = Obs("create_invite", 0, actor, 0, 0, code, status, <<>>, <<>>)
    /\ UNCHANGED <<user_role, user_order, ban_expires, mute_expires, registration_mode,
                   mod_log, msg_vars, now, hub_vars, conn_vars, sfu_vars, reg_vars,
                   cache_vars, svc_vars>>

revoke_invite(actor, code) ==
    /\ LET status == IF ~UserExists(actor) THEN 404
                     ELSE IF ~require_role(user_role[actor], Moderator) THEN 403
                     ELSE IF ~invites[code].exists THEN 404
                     ELSE 200
       IN /\ invites' = IF status = 200
                        THEN [invites EXCEPT ![code].revoked = TRUE]
                        ELSE invites
          /\ last' = Obs("revoke_invite", 0, actor, 0, 0, code, status, <<>>, <<>>)
    /\ UNCHANGED <<user_role, user_order, ban_expires, mute_expires, registration_mode,
                   mod_log, msg_vars, now, hub_vars, conn_vars, sfu_vars, reg_vars,
                   cache_vars, svc_vars>>

\* a validity test that still accepts an invite at the instant it expires
invite_valid_at_expiry(invite) ==
    IF invite.exists
    THEN /\ ~invite.revoked
         /\ (invite.expires_at = Never \/ invite.expires_at >= now)
         /\ (invite.max_uses = NoMax \/ invite.uses < invite.max_uses)
    ELSE FALSE

\* match invite { Some(inv) => !revoked && expires_at.is_none_or(> now)
\*                             && max_uses.is_none_or(uses < max), None => false }
invite_valid(invite) ==
    IF invite.exists
    THEN /\ ~invite.revoked
         /\ (invite.expires_at = Never \/ invite.expires_at > now)
         /\ (invite.max_uses = NoMax \/ invite.uses < invite.max_uses)
    ELSE FALSE

\* GET /api/invites/{code}/validate: no authentication, always 200
validate_invite(code) ==
    /\ last' = Obs("validate_invite", 0, 0, 0, 0, code, 200, <<>>,
                   <<[valid |-> invite_valid(invites[code])]>>)
    /\ UNCHANGED <<db_vars, now, hub_vars, conn_vars, sfu_vars, reg_vars,
                   cache_vars, svc_vars>>

\* --------------------------------------------------------------- settings
update_setting(actor, value) ==
    /\ LET status == IF ~UserExists(actor) THEN 404
                     ELSE IF ~require_role(user_role[actor], Admin) THEN 403
                     ELSE 200
           evs == IF status = 200 THEN <<Event("settings_updated", 0, 0)>> ELSE <<>>
       IN /\ registration_mode' = IF status = 200 THEN value ELSE registration_mode
          /\ broadcast_global(evs)
          /\ last' = Obs("update_setting", 0, actor, 0, 0, 0, status, evs, <<>>)
    /\ UNCHANGED <<user_role, user_order, ban_expires, mute_expires, invites,
                   mod_log, msg_vars, now, online_users, voice_states,
                   channel_broadcasts, pc, conn_user, current_channel, broadcast_rx,
                   left_channels, sfu_vars, reg_vars,
                   cache_vars, svc_vars>>

\* --------------------------------------------------------------- register
NoReq == [user |-> 0, code |-> NoCode, role |-> Member]

\* auth_routes.rs: registration mode and invite consumption
register_begin(r, u, code) ==
    /\ reg_pc[r] = "idle"
    /\ (code \in Codes /\ invites[code].max_uses = NoMax)
         => invites[code].uses < MaxInviteUses
    /\ LET used == use_invite_code(code)
           status == IF registration_mode # "invite_only" THEN 200
                     ELSE IF code = NoCode THEN 403
                     ELSE IF ~used.ok THEN 400
                     ELSE 200
       IN /\ invites' = IF registration_mode = "invite_only" /\ status = 200
                        THEN used.invites ELSE invites
          /\ reg_pc' = IF status = 200 THEN [reg_pc EXCEPT ![r] = "hashed"] ELSE reg_pc
          /\ reg_req' = IF status = 200
                        THEN [reg_req EXCEPT ![r] = [user |-> u, code |-> code,
                                                    role |-> Member]]
                        ELSE reg_req
          /\ last' = Obs(IF status = 200 THEN "register_begin" ELSE "register",
                         r, u, 0, 0, code, IF status = 200 THEN 0 ELSE status,
                         <<>>, <<>>)
    /\ UNCHANGED <<user_role, user_order, ban_expires, mute_expires, registration_mode,
                   mod_log, msg_vars, now, hub_vars, conn_vars, sfu_vars,
                   cache_vars, svc_vars>>

\* auth_routes.rs: first user becomes owner, rest are members
register_count(r) ==
    /\ reg_pc[r] = "hashed"
    /\ reg_pc' = [reg_pc EXCEPT ![r] = "counted"]
    /\ reg_req' = [reg_req EXCEPT ![r].role = IF get_user_count = 0 THEN Owner ELSE Member]
    /\ last' = Obs("register_count", r, reg_req[r].user, 0, 0, 0, 0, <<>>, <<>>)
    /\ UNCHANGED <<db_vars, now, hub_vars, conn_vars, sfu_vars,
                   cache_vars, svc_vars>>

\* database::create_user: the unique constraints on username and email
create_user(u, role) ==
    IF UserExists(u)
    THEN [ok |-> FALSE, user_role |-> user_role, user_order |-> user_order]
    ELSE [ok |-> TRUE,
          user_role |-> [user_role EXCEPT ![u] = role],
          user_order |-> Append(user_order, u)]

register_create(r) ==
    /\ reg_pc[r] = "counted"
    /\ LET created == create_user(reg_req[r].user, reg_req[r].role)
       IN /\ user_role' = created.user_role
          /\ user_order' = created.user_order
          /\ last' = Obs("register", r, reg_req[r].user, 0, 0, reg_req[r].code,
                         IF created.ok THEN 200 ELSE 409, <<>>, <<>>)
    /\ reg_pc' = [reg_pc EXCEPT ![r] = "idle"]
    /\ reg_req' = [reg_req EXCEPT ![r] = NoReq]
    /\ UNCHANGED <<ban_expires, mute_expires, invites, registration_mode, mod_log,
                   msg_vars, now, hub_vars, conn_vars, sfu_vars,
                   cache_vars, svc_vars>>

\* ------------------------------------------------------------- moderation
LogEntry(action, moderator, target) ==
    [action |-> action, moderator_id |-> moderator, target_user_id |-> target]

\* role fetch -> require_role -> target role fetch -> require_higher_role
moderation_status(actor, target, minimum) ==
    IF ~UserExists(actor) THEN 404
    ELSE IF ~require_role(user_role[actor], minimum) THEN 403
    ELSE IF ~UserExists(target) THEN 404
    ELSE IF ~require_higher_role(user_role[actor], user_role[target]) THEN 403
    ELSE 200

\* unban / unmute: role check, then the DELETE must affect a row
removal_status(actor, expires) ==
    IF ~UserExists(actor) THEN 404
    ELSE IF ~require_role(user_role[actor], Moderator) THEN 403
    ELSE IF expires = NoRow THEN 404
    ELSE 200

\* the common tail of a moderation handler: log entry, global event, response
moderation_done(op, actor, target, arg, status, type) ==
    LET evs == IF status = 200 THEN <<Event(type, target, NoChan)>> ELSE <<>>
    IN /\ status = 200 => Len(mod_log) < MaxModLog
       /\ mod_log' = IF status = 200
                     THEN Append(mod_log, LogEntry(op, actor, target))
                     ELSE mod_log
       /\ broadcast_global(evs)
       /\ last' = Obs(op, 0, actor, target, 0, arg, status, evs, <<>>)

kick_user(actor, target) ==
    /\ moderation_done("kick", actor, target, 0,
                       moderation_status(actor, target, Moderator), "user_kicked")
    /\ UNCHANGED <<user_role, user_order, ban_expires, mute_expires, invites,
                   registration_mode, msg_vars, now, online_users, voice_states,
                   channel_broadcasts, pc, conn_user, current_channel, broadcast_rx,
                   left_channels, sfu_vars, reg_vars,
                   cache_vars, svc_vars>>

ban_user(actor, target, hours) ==
    /\ LET status == moderation_status(actor, target, Moderator)
       IN /\ ban_expires' = IF status = 200
                            THEN [ban_expires EXCEPT ![target] = ExpiresAt(hours)]
                            ELSE ban_expires
          /\ moderation_done("ban", actor, target, hours, status, "user_banned")
    /\ UNCHANGED <<user_role, user_order, mute_expires, invites,
                   registration_mode, msg_vars, now, online_users, voice_states,
                   channel_broadcasts, pc, conn_user, current_channel, broadcast_rx,
                   left_channels, sfu_vars, reg_vars,
                   cache_vars, svc_vars>>

unban_user(actor, target) ==
    /\ LET status == removal_status(actor, ban_expires[target])
       IN /\ ban_expires' = IF status = 200
                            THEN [ban_expires EXCEPT ![target] = NoRow]
                            ELSE ban_expires
          /\ moderation_done("unban", actor, target, 0, status, "user_unbanned")
    /\ UNCHANGED <<user_role, user_order, mute_expires, invites,
                   registration_mode, msg_vars, now, online_users, voice_states,
                   channel_broadcasts, pc, conn_user, current_channel, broadcast_rx,
                   left_channels, sfu_vars, reg_vars,
                   cache_vars, svc_vars>>

mute_user(actor, target, hours) ==
    /\ LET status == moderation_status(actor, target, Moderator)
       IN /\ mute_expires' = IF status = 200
                             THEN [mute_expires EXCEPT ![target] = ExpiresAt(hours)]
                             ELSE mute_expires
          /\ moderation_done("mute", actor, target, hours, status, "user_muted")
    /\ UNCHANGED <<user_role, user_order, ban_expires, invites,
                   registration_mode, msg_vars, now, online_users, voice_states,
                   channel_broadcasts, pc, conn_user, current_channel, broadcast_rx,
                   left_channels, sfu_vars, reg_vars,
                   cache_vars, svc_vars>>

unmute_user(actor, target) ==
    /\ LET status == removal_status(actor, mute_expires[target])
       IN /\ mute_expires' = IF status = 200
                             THEN [mute_expires EXCEPT ![target] = NoRow]
                             ELSE mute_expires
          /\ moderation_done("unmute", actor, target, 0, status, "user_unmuted")
    /\ UNCHANGED <<user_role, user_order, ban_expires, invites,
                   registration_mode, msg_vars, now, online_users, voice_states,
                   channel_broadcasts, pc, conn_user, current_channel, broadcast_rx,
                   left_channels, sfu_vars, reg_vars,
                   cache_vars, svc_vars>>

\* admin/users.rs
role_change_status(actor, target, new_role) ==
    IF ~UserExists(actor) THEN 404
    ELSE IF ~require_role(user_role[actor], Admin) THEN 403
    ELSE IF ~UserExists(target) THEN 404
    ELSE IF user_role[target] = Owner THEN 403
    ELSE IF ~can_assign_role(user_role[actor], new_role) THEN 403
    ELSE IF ~require_higher_role(user_role[actor], user_role[target]) THEN 403
    ELSE 200

change_user_role(actor, target, new_role) ==
    /\ LET status == role_change_status(actor, target, new_role)
       IN /\ user_role' = IF status = 200
                          THEN [user_role EXCEPT ![target] = new_role]
                          ELSE user_role
          /\ moderation_done("role_change", actor, target, new_role, status,
                             "user_role_changed")
    /\ UNCHANGED <<user_order, ban_expires, mute_expires, invites,
                   registration_mode, msg_vars, now, online_users, voice_states,
                   channel_broadcasts, pc, conn_user, current_channel, broadcast_rx,
                   left_channels, sfu_vars, reg_vars,
                   cache_vars, svc_vars>>

\* ----------------------------------------------------------- SFU registry
NoConnection == [live |-> FALSE, channel_id |-> NoChan, user_id |-> 0,
                 producers |-> {}, consumer_ids |-> {}]

\* a close that leaves the transport in the per-user index
close_connection_keeping_user_index(reg, t) ==
    IF ~reg.connections[t].live THEN reg
    ELSE LET conn == reg.connections[t]
         IN [connections |-> [reg.connections EXCEPT ![t] = NoConnection],
             producers |-> reg.producers \ conn.producers,
             consumers |-> reg.consumers \ conn.consumer_ids,
             transports |-> reg.transports \ {t},
             channel_connections |->
                 [reg.channel_connections EXCEPT ![conn.channel_id] = @ \ {t}],
             user_connections |-> reg.user_connections]

\* SfuService::close_connection on the registry value reg
close_connection_in(reg, t) ==
    IF ~reg.connections[t].live THEN reg
    ELSE LET conn == reg.connections[t]
         IN [connections |-> [reg.connections EXCEPT ![t] = NoConnection],
             producers |-> reg.producers \ conn.producers,
             consumers |-> reg.consumers \ conn.consumer_ids,
             transports |-> reg.transports \ {t},
             channel_connections |->
                 [reg.channel_connections EXCEPT ![conn.channel_id] = @ \ {t}],
             user_connections |->
                 [reg.user_connections EXCEPT ![<<conn.channel_id, conn.user_id>>] = @ \ {t}]]

Registry == [connections |-> connections, producers |-> producers,
             consumers |-> consumers, transports |-> transports,
             channel_connections |-> channel_connections,
             user_connections |-> user_connections]

RECURSIVE CloseEach(_, _)
CloseEach(reg, ts) ==
    IF ts = {} THEN reg
    ELSE LET t == CHOOSE x \in ts : TRUE
         IN CloseEach(close_connection_in(reg, t), ts \ {t})

\* SfuService::close_user_connections
close_user_connections(c, u) == CloseEach(Registry, user_connections[<<c, u>>])

SetRegistry(reg) ==
    /\ connections' = reg.connections
    /\ producers' = reg.producers
    /\ consumers' = reg.consumers
    /\ transports' = reg.transports
    /\ channel_connections' = reg.channel_connections
    /\ user_connections' = reg.user_connections

\* sfu/routes.rs + SfuService::create_transport (transports of this model are
\* never older than the stale threshold when the next one is created)
create_transport(u, c) ==
    /\ next_transport <= NumTransports
    /\ LET t == next_transport
       IN /\ transports' = transports \cup {t}
          /\ connections' = [connections EXCEPT ![t] =
                               [live |-> TRUE, channel_id |-> c, user_id |-> u,
                                producers |-> {}, consumer_ids |-> {}]]
          /\ channel_connections' = [channel_connections EXCEPT ![c] = @ \cup {t}]
          /\ user_connections' = [user_connections EXCEPT ![<<c, u>>] = @ \cup {t}]
          /\ next_transport' = next_transport + 1
          /\ worker_calls' = worker_calls \cup
                 {[op |-> "create_transport", transport |-> t, caller |-> u, owner |-> u]}
          /\ last' = Obs("create_transport", 0, u, 0, c, t, 200, <<>>, <<>>)
    /\ UNCHANGED <<db_vars, now, hub_vars, conn_vars, reg_vars, producers, consumers,
                   next_producer, next_consumer,
                   cache_vars, svc_vars>>

\* sfu/routes.rs connect_transport -> SfuService::connect_transport
connect_transport(caller, t) ==
    /\ LET status == IF t \in transports THEN 200 ELSE 500
       IN /\ worker_calls' = IF status = 200
                             THEN worker_calls \cup
                                  {[op |-> "connect", transport |-> t, caller |-> caller,
                                    owner |-> connections[t].user_id]}
                             ELSE worker_calls
          /\ last' = Obs("connect_transport", 0, caller, connections[t].user_id, 0, t, status,
                         <<>>, <<>>)
    /\ UNCHANGED <<db_vars, now, hub_vars, conn_vars, reg_vars, connections, transports,
                   channel_connections, user_connections, producers, consumers,
                   next_transport, next_producer, next_consumer,
                   cache_vars, svc_vars>>

\* sfu/routes.rs produce -> SfuService::produce, then the new_producer event
produce(caller, t) ==
    /\ t \in transports => next_producer <= NumProducers
    /\ LET status == IF t \in transports /\ connections[t].live THEN 200 ELSE 500
           p == next_producer
           evs == IF status = 200
                  THEN <<Event("new_producer", connections[t].user_id,
                               connections[t].channel_id)>>
                  ELSE <<>>
       IN /\ producers' = IF t \in transports THEN producers \cup {p} ELSE producers
          /\ next_producer' = IF t \in transports THEN p + 1 ELSE next_producer
          /\ connections' = IF status = 200
                            THEN [connections EXCEPT ![t].producers = @ \cup {p}]
                            ELSE connections
          /\ worker_calls' = IF t \in transports
                             THEN worker_calls \cup
                                  {[op |-> "produce", transport |-> t, caller |-> caller,
                                    owner |-> connections[t].user_id]}
                             ELSE worker_calls
          /\ broadcast_global(evs)
          /\ last' = Obs("produce", 0, caller, connections[t].user_id, 0, t, status, evs,
                         <<>>)
    /\ UNCHANGED <<db_vars, now, online_users, voice_states, channel_broadcasts,
                   pc, conn_user, current_channel, broadcast_rx, left_channels,
                   reg_vars, transports, channel_connections, user_connections,
                   consumers, next_transport, next_consumer,
                   cache_vars, svc_vars>>

\* sfu/routes.rs consume -> SfuService::consume
consume(caller, t, p) ==
    /\ (t \in transports /\ p \in producers) => next_consumer <= NumConsumers
    /\ LET status == IF t \in transports /\ p \in producers THEN 200 ELSE 500
           c == next_consumer
       IN /\ consumers' = IF status = 200 THEN consumers \cup {c} ELSE consumers
          /\ next_consumer' = IF status = 200 THEN c + 1 ELSE next_consumer
          /\ connections' = IF status = 200 /\ connections[t].live
                            THEN [connections EXCEPT ![t].consumer_ids = @ \cup {c}]
                            ELSE connections
          /\ worker_calls' = IF status = 200
                             THEN worker_calls \cup
                                  {[op |-> "consume", transport |-> t, caller |-> caller,
                                    owner |-> connections[t].user_id]}
                             ELSE worker_calls
          /\ last' = Obs("consume", 0, caller, connections[t].user_id, 0, t, status,
                         <<>>, <<>>)
    /\ UNCHANGED <<db_vars, now, hub_vars, conn_vars, reg_vars, transports,
                   channel_connections, user_connections, producers, next_transport,
                   next_producer,
                   cache_vars, svc_vars>>

\* sfu/routes.rs close_connection -> SfuService::close_connection
close_connection(caller, t) ==
    /\ LET status == IF connections[t].live THEN 200 ELSE 500
       IN /\ SetRegistry(close_connection_in(Registry, t))
          /\ last' = Obs("close_connection", 0, caller, connections[t].user_id, 0, t,
                         status, <<>>,
                         IF status = 200 THEN <<>> ELSE <<"Connection not found">>)
    /\ UNCHANGED <<db_vars, now, hub_vars, conn_vars, reg_vars, next_transport,
                   next_producer, next_consumer, worker_calls,
                   cache_vars, svc_vars>>

\* ----------------------------------------------------------- voice (REST)
NoVoice == [present |-> FALSE, users |-> {}]

\* voice.rs join_voice_channel: entry(channel).or_insert_with(..).insert(user)
join_voice_channel(u, c) ==
    /\ LET evs == <<Event("voice_user_joined", u, c)>>
       IN /\ voice_states' = [voice_states EXCEPT ![c] =
                                [present |-> TRUE, users |-> voice_states[c].users \cup {u}]]
          /\ broadcast_global(evs)
          /\ last' = Obs("join_voice_channel", 0, u, 0, c, 0, 200, evs, <<>>)
    /\ UNCHANGED <<db_vars, now, online_users, channel_broadcasts, pc, conn_user,
                   current_channel, broadcast_rx, left_channels, sfu_vars, reg_vars,
                   cache_vars, svc_vars>>

\* the channel's entry after user u is removed, dropped when it became empty
VoiceWithout(entry, u) ==
    IF ~entry.present THEN entry
    ELSE IF entry.users \ {u} = {} THEN NoVoice
    ELSE [present |-> TRUE, users |-> entry.users \ {u}]

\* voice.rs leave_voice_channel
leave_voice_channel(u, c) ==
    /\ LET evs == <<Event("voice_user_left", u, c)>>
       IN /\ voice_states' = [voice_states EXCEPT ![c] = VoiceWithout(@, u)]
          /\ SetRegistry(close_user_connections(c, u))
          /\ broadcast_global(evs)
          /\ last' = Obs("leave_voice_channel", 0, u, 0, c, 0, 200, evs, <<>>)
    /\ UNCHANGED <<db_vars, now, online_users, channel_broadcasts, pc, conn_user,
                   current_channel, broadcast_rx, left_channels, reg_vars,
                   next_transport, next_producer, next_consumer, worker_calls,
                   cache_vars, svc_vars>>

\* ----------------------------------------------------------------- login
\* auth_routes.rs login: credentials, then check_not_banned, then the token
login(u, password_ok) ==
    /\ LET status == IF ~UserExists(u) \/ ~password_ok THEN 401
                     ELSE IF get_active_ban(u) THEN 403
                     ELSE 200
       IN last' = Obs("login", 0, u, 0, 0, IF password_ok THEN 1 ELSE 0, status,
                      <<>>, <<>>)
    /\ UNCHANGED <<db_vars, now, hub_vars, conn_vars, sfu_vars, reg_vars,
                   cache_vars, svc_vars>>

\* -------------------------------------------------------------- WebSocket
NoChannelRx == [sub |-> FALSE, chan |-> NoChan, behind |-> 0, lagged |-> FALSE]
SyncRequired == Event("sync_required", 0, NoChan)

\* websocket_handler: token, ban check, upgrade
ws_handshake(k, token) ==
    /\ pc[k] = "idle"
    /\ LET status == IF token = BadToken THEN 401
                     ELSE IF get_active_ban(token) THEN 403
                     ELSE 101
       IN /\ pc' = IF status = 101 THEN [pc EXCEPT ![k] = "upgrading"] ELSE pc
          /\ conn_user' = IF status = 101 THEN [conn_user EXCEPT ![k] = token]
                          ELSE conn_user
          /\ last' = Obs("ws_handshake", k, token, 0, 0, 0, status, <<>>, <<>>)
    /\ UNCHANGED <<db_vars, now, hub_vars, global_rx, current_channel, broadcast_rx,
                   left_channels, sfu_vars, reg_vars,
                   cache_vars, svc_vars>>

\* websocket(): presence insert and the user_online publication
ws_connect(k) ==
    /\ pc[k] = "upgrading"
    /\ LET evs == <<Event("user_online", conn_user[k], NoChan)>>
       IN /\ online_users' = online_users \cup {conn_user[k]}
          /\ broadcast_global(evs)
          /\ last' = Obs("ws_connect", k, conn_user[k], 0, 0, 0, 0, evs, <<>>)
    /\ pc' = [pc EXCEPT ![k] = "connected"]
    /\ UNCHANGED <<db_vars, now, voice_states, channel_broadcasts, conn_user,
                   current_channel, broadcast_rx, left_channels, sfu_vars, reg_vars,
                   cache_vars, svc_vars>>

\* websocket(): global_broadcast.subscribe(), no channel selected, loop entered
ws_subscribe(k) ==
    /\ pc[k] = "connected"
    /\ pc' = [pc EXCEPT ![k] = "open"]
    /\ global_rx' = [global_rx EXCEPT ![k] = [sub |-> TRUE, behind |-> 0, lagged |-> FALSE]]
    /\ current_channel' = [current_channel EXCEPT ![k] = NoChan]
    /\ broadcast_rx' = [broadcast_rx EXCEPT ![k] = NoChannelRx]
    /\ last' = Obs("ws_subscribe", k, conn_user[k], 0, 0, 0, 0, <<>>, <<>>)
    /\ UNCHANGED <<db_vars, now, hub_vars, conn_user, left_channels, sfu_vars, reg_vars,
                   cache_vars, svc_vars>>

\* the loop ends on a Close frame, the end of the stream or a failed ping
ws_close(k) ==
    /\ pc[k] = "open"
    /\ pc' = [pc EXCEPT ![k] = "cleanup"]
    /\ last' = Obs("ws_close", k, conn_user[k], 0, 0, 0, 0, <<>>, <<>>)
    /\ UNCHANGED <<db_vars, now, hub_vars, conn_user, global_rx, current_channel,
                   broadcast_rx, left_channels, sfu_vars, reg_vars,
                   cache_vars, svc_vars>>

\* a receiver that always reads the newest value
NextValueNewest(log, behind) == log[Len(log)]

\* the value a receiver that is `behind` values behind reads next
NextValue(log, behind) == log[Len(log) - behind + 1]

IsTargetedExit(ev, u) == ev.type \in {"user_kicked", "user_banned"} /\ ev.user_id = u

\* the global_rx.recv() arm of the loop
ws_global_recv(k, send_ok) ==
    /\ pc[k] = "open"
    /\ global_rx[k].sub
    /\ global_rx[k].lagged \/ global_rx[k].behind > 0
    /\ IF global_rx[k].lagged
       THEN /\ global_rx' = [global_rx EXCEPT ![k].lagged = FALSE]
            /\ global_broadcast' = global_broadcast
            /\ pc' = pc
            /\ last' = Obs("ws_global_recv", k, conn_user[k], 0, 0, 0, 0, <<>>,
                           IF send_ok THEN <<SyncRequired>> ELSE <<>>)
       ELSE LET ev == NextValue(global_broadcast, global_rx[k].behind)
                rxs == [global_rx EXCEPT ![k].behind = @ - 1]
                exit == IsTargetedExit(ev, conn_user[k])
            IN /\ global_rx' = rxs
               /\ global_broadcast' = Retained(global_broadcast, rxs)
               /\ pc' = IF exit \/ ~send_ok THEN [pc EXCEPT ![k] = "cleanup"] ELSE pc
               /\ last' = Obs("ws_global_recv", k, conn_user[k], 0, 0, 0,
                              IF exit THEN 1 ELSE 0, <<>>,
                              IF send_ok THEN <<ev>> ELSE <<>>)
    /\ UNCHANGED <<db_vars, now, online_users, voice_states, channel_broadcasts,
                   conn_user, current_channel, broadcast_rx, left_channels, sfu_vars,
                   reg_vars,
                   cache_vars, svc_vars>>

\* cleanup, first loop: remove the user from every voice channel
ws_cleanup_collect(k) ==
    /\ pc[k] = "cleanup"
    /\ pc' = [pc EXCEPT ![k] = "leaving"]
    /\ left_channels' = [left_channels EXCEPT ![k] =
                           {c \in Chans : voice_states[c].present
                                          /\ conn_user[k] \in voice_states[c].users}]
    /\ voice_states' = [c \in Chans |->
                          [present |-> voice_states[c].present,
                           users |-> voice_states[c].users \ {conn_user[k]}]]
    /\ last' = Obs("ws_cleanup_collect", k, conn_user[k], 0, 0, 0, 0, <<>>, <<>>)
    /\ UNCHANGED <<db_vars, now, online_users, global_broadcast, channel_broadcasts,
                   conn_user, global_rx, current_channel, broadcast_rx, sfu_vars,
                   reg_vars,
                   cache_vars, svc_vars>>

\* a cleanup that leaves the emptied entry in the map
KeepEntry(entry) == entry

\* if let Some(entry) = voice_states.get(c) && entry.is_empty() { remove(c) }
DropIfEmpty(entry) == IF entry.present /\ entry.users = {} THEN NoVoice ELSE entry

\* cleanup, second loop, one channel: drop the empty entry, close the user's SFU
\* connections, publish voice_user_left
ws_cleanup_channel(k, c) ==
    /\ pc[k] = "leaving"
    /\ c \in left_channels[k]
    /\ LET evs == <<Event("voice_user_left", conn_user[k], c)>>
       IN /\ voice_states' = [voice_states EXCEPT ![c] = DropIfEmpty(@)]
          /\ SetRegistry(close_user_connections(c, conn_user[k]))
          /\ broadcast_global(evs)
          /\ last' = Obs("ws_cleanup_channel", k, conn_user[k], 0, c, 0, 0, evs, <<>>)
    /\ left_channels' = [left_channels EXCEPT ![k] = @ \ {c}]
    /\ UNCHANGED <<db_vars, now, online_users, channel_broadcasts, pc, conn_user,
                   current_channel, broadcast_rx, reg_vars, next_transport,
                   next_producer, next_consumer, worker_calls,
                   cache_vars, svc_vars>>

\* cleanup, end: presence removed, user_offline published, the task returns
ws_cleanup_presence(k) ==
    /\ pc[k] = "leaving"
    /\ left_channels[k] = {}
    /\ LET evs == <<Event("user_offline", conn_user[k], NoChan)>>
           sent == GlobalAfter(evs)
           rxs == [sent.rx EXCEPT ![k] = NoReceiver]
       IN /\ online_users' = online_users \ {conn_user[k]}
          /\ global_rx' = rxs
          /\ global_broadcast' = Retained(sent.log, rxs)
          /\ last' = Obs("ws_cleanup_presence", k, conn_user[k], 0, 0, 0, 0, evs, <<>>)
    /\ pc' = [pc EXCEPT ![k] = "idle"]
    /\ conn_user' = [conn_user EXCEPT ![k] = 0]
    /\ current_channel' = [current_channel EXCEPT ![k] = NoChan]
    /\ broadcast_rx' = [broadcast_rx EXCEPT ![k] = NoChannelRx]
    /\ UNCHANGED <<db_vars, now, voice_states, channel_broadcasts, left_channels,
                   sfu_vars, reg_vars,
                   cache_vars, svc_vars>>

\* ------------------------------------------------------------------- chat
\* AppState::broadcast_channel on the planes (planes, rx): nothing happens when
\* the channel has no sender
ChannelAfter(planes, rx, c, evs) ==
    IF ~planes[c].present THEN [planes |-> planes, rx |-> rx]
    ELSE LET mine == [k \in Conns |-> IF rx[k].sub /\ rx[k].chan = c
                                      THEN [sub |-> TRUE, behind |-> rx[k].behind,
                                            lagged |-> rx[k].lagged]
                                      ELSE NoReceiver]
             sent == SendAll([log |-> planes[c].log, rx |-> mine], evs, ChannelCap)
         IN [planes |-> [planes EXCEPT ![c].log = sent.log],
             rx |-> [k \in Conns |-> IF rx[k].sub /\ rx[k].chan = c
                                     THEN [sub |-> TRUE, chan |-> c,
                                           behind |-> sent.rx[k].behind,
                                           lagged |-> sent.rx[k].lagged]
                                     ELSE rx[k]]]

\* a sender is created for the channel but the connection takes no receiver
SubscribeChannelSenderOnly(planes, rx, k, c) ==
    [planes |-> [planes EXCEPT ![c].present = TRUE], rx |-> rx]

\* get_or_create_broadcast(c) followed by tx.subscribe() for connection k
SubscribeChannel(planes, rx, k, c) ==
    [planes |-> [planes EXCEPT ![c].present = TRUE],
     rx |-> [rx EXCEPT ![k] = [sub |-> TRUE, chan |-> c, behind |-> 0,
                               lagged |-> FALSE]]]

\* --------------------------------------------------------------- messages
\* a message text, by what validation looks at: `text` bytes that survive
\* trim() and `pad` bytes of surrounding whitespace; some = FALSE is None
NoContent == [some |-> FALSE, text |-> 0, pad |-> 0]

Text(t, p) == [some |-> TRUE, text |-> t, pad |-> p]

\* content.trim().is_empty() || content.len() > MAX_MESSAGE_LENGTH
validate_message_content(content) ==
    ~(content.text = 0 \/ content.text + content.pad > MAX_MESSAGE_LENGTH)

validate_message_content_optional(content, has_attachments) ==
    IF content.some /\ content.text # 0
    THEN validate_message_content(content)
    ELSE has_attachments

\* params.content.unwrap_or_default()
unwrap_or_default(content) == [text |-> content.text, pad |-> content.pad]

NoMessage == [id |-> 0, author_id |-> 0, channel_id |-> NoChan,
              content |-> unwrap_or_default(NoContent), reply_to_id |-> 0,
              created_at |-> 0, edited |-> FALSE]

\* SELECT ... FROM messages WHERE id = $1
get_message_by_id(id) ==
    IF \E i \in DOMAIN messages : messages[i].id = id
    THEN messages[CHOOSE i \in DOMAIN messages : messages[i].id = id]
    ELSE NoMessage

\* SELECT id, author_username, content FROM messages WHERE id = $1: the id of
\* the previewed message, 0 for no preview
get_reply_preview(reply_id) == get_message_by_id(reply_id).id

\* the request's attachment_ids: the rows it names and the vector's length
\* (ids of no row included)
NoAttachments == [ids |-> {}, len |-> 0]

NoAttachment == [exists |-> FALSE, uploader_id |-> 0, message_id |-> 0]

\* a link that also takes attachments that already belong to a message
link_attachments_relink(attachment_ids, message_id, uploader_id) ==
    [a \in Aids |->
        IF /\ a \in attachment_ids
           /\ attachments[a].exists
           /\ attachments[a].uploader_id = uploader_id
        THEN [attachments[a] EXCEPT !.message_id = message_id]
        ELSE attachments[a]]

\* UPDATE attachments SET message_id = $1
\*  WHERE id = ANY($2) AND uploader_id = $3 AND message_id IS NULL
link_attachments_to_message(attachment_ids, message_id, uploader_id) ==
    [a \in Aids |->
        IF /\ a \in attachment_ids
           /\ attachments[a].exists
           /\ attachments[a].uploader_id = uploader_id
           /\ attachments[a].message_id = 0
        THEN [attachments[a] EXCEPT !.message_id = message_id]
        ELSE attachments[a]]

\* a pipeline that resolves the reply without comparing channels
create_message_any_channel(user_id, channel_id, content, reply_to_id, attachment_ids, validate_reply_channel) ==
    LET status ==
            IF ~validate_message_content_optional(content, attachment_ids.len # 0)
            THEN 400
            ELSE IF attachment_ids.len > MAX_ATTACHMENTS_PER_MESSAGE THEN 400
            ELSE IF /\ reply_to_id # 0 /\ validate_reply_channel
                    /\ get_message_by_id(reply_to_id) = NoMessage
            THEN 404
            ELSE 200
    IN [status |-> status,
        error |-> IF status = 404 THEN "Replied-to message not found" ELSE "",
        message |-> [id |-> next_message, author_id |-> user_id,
                     channel_id |-> channel_id,
                     content |-> unwrap_or_default(content),
                     reply_to_id |-> reply_to_id, created_at |-> now,
                     edited |-> FALSE],
        reply_to |-> IF reply_to_id # 0 THEN get_reply_preview(reply_to_id) ELSE 0]

\* services::message::create_message up to the insert: the status, the row to
\* insert and the reply preview the returned message carries
create_message(user_id, channel_id, content, reply_to_id, attachment_ids, validate_reply_channel) ==
    LET replied_msg == get_message_by_id(reply_to_id)
        status ==
            IF ~validate_message_content_optional(content, attachment_ids.len # 0)
            THEN 400
            ELSE IF attachment_ids.len > MAX_ATTACHMENTS_PER_MESSAGE THEN 400
            ELSE IF reply_to_id # 0 /\ validate_reply_channel /\ replied_msg = NoMessage
            THEN 404
            ELSE IF /\ reply_to_id # 0 /\ validate_reply_channel
                    /\ replied_msg.channel_id # channel_id
            THEN 400
            ELSE 200
        error ==
            IF status = 200 THEN ""
            ELSE IF ~validate_message_content_optional(content, attachment_ids.len # 0)
            THEN IF content.some /\ content.text # 0
                 THEN "Message must be between 1 and 4000 characters"
                 ELSE "Message must have content or attachments"
            ELSE IF attachment_ids.len > MAX_ATTACHMENTS_PER_MESSAGE
            THEN "Maximum 5 attachments per message"
            ELSE IF status = 404 THEN "Replied-to message not found"
            ELSE "Cannot reply to a message in a different channel"
    IN [status |-> status,
        error |-> error,
        message |-> [id |-> next_message, author_id |-> user_id,
                     channel_id |-> channel_id,
                     content |-> unwrap_or_default(content),
                     reply_to_id |-> reply_to_id, created_at |-> now,
                     edited |-> FALSE],
        reply_to |-> IF reply_to_id # 0 THEN get_reply_preview(reply_to_id) ELSE 0]

\* if !content.is_empty() { spawn_preview_fetch(..) }
FetchesAfter(message) ==
    IF message.content.text + message.content.pad # 0
    THEN preview_fetches \cup {message.id}
    ELSE preview_fetches

NoPost == [pc |-> "idle", user_id |-> 0, channel_id |-> NoChan, message_id |-> 0,
           reply_to_id |-> 0, attachment_ids |-> {}]

\* routes/attachments.rs upload_attachment: the row is created orphaned
upload_attachment(u, a) ==
    /\ ~attachments[a].exists
    /\ LET status == IF get_active_mute(u) THEN 403 ELSE 200
       IN /\ attachments' = IF status = 200
                            THEN [attachments EXCEPT ![a] =
                                    [exists |-> TRUE, uploader_id |-> u, message_id |-> 0]]
                            ELSE attachments
          /\ last' = Obs("upload_attachment", 0, u, a, 0, 0, status, <<>>, <<>>)
    /\ UNCHANGED <<user_role, user_order, ban_expires, mute_expires, invites,
                   registration_mode, mod_log, messages, next_message, preview_fetches,
                   posts, now, hub_vars, cache_vars, conn_vars, sfu_vars, reg_vars, svc_vars>>

\* routes/messages.rs send_message: mute check, then the pipeline up to the
\* insert; a request without attachments is complete after this step
send_message(p, u, c, content, reply_to_id, attachment_ids) ==
    /\ posts[p].pc = "idle"
    /\ LET made == create_message(u, c, content, reply_to_id, attachment_ids, TRUE)
           status == IF get_active_mute(u) THEN 403 ELSE made.status
           linking == status = 200 /\ attachment_ids.len # 0
       IN /\ messages' = IF status = 200 THEN Append(messages, made.message)
                         ELSE messages
          /\ next_message' = IF status = 200 THEN next_message + 1 ELSE next_message
          /\ posts' = IF linking
                      THEN [posts EXCEPT ![p] =
                              [pc |-> "inserted", user_id |-> u, channel_id |-> c,
                               message_id |-> made.message.id,
                               reply_to_id |-> reply_to_id,
                               attachment_ids |-> attachment_ids.ids]]
                      ELSE posts
          /\ preview_fetches' = IF status = 200 /\ ~linking
                                THEN FetchesAfter(made.message)
                                ELSE preview_fetches
          /\ last' = Obs(IF linking THEN "send_message_insert" ELSE "send_message",
                         p, u, reply_to_id, c,
                         IF status = 200 THEN made.message.id ELSE 0,
                         IF linking THEN 0 ELSE status, <<>>,
                         IF status = 403 THEN <<"You are muted">>
                         ELSE IF status # 200 THEN <<made.error>> ELSE <<>>)
    /\ UNCHANGED <<user_role, user_order, ban_expires, mute_expires, invites,
                   registration_mode, mod_log, attachments, now, hub_vars, cache_vars,
                   conn_vars, sfu_vars, reg_vars, svc_vars>>

\* the rest of the pipeline: link the attachments, spawn the preview fetch
send_message_link(p) ==
    /\ posts[p].pc = "inserted"
    /\ attachments' = link_attachments_to_message(posts[p].attachment_ids,
                                                   posts[p].message_id, posts[p].user_id)
    /\ preview_fetches' = IF get_message_by_id(posts[p].message_id) = NoMessage
                          THEN preview_fetches
                          ELSE FetchesAfter(get_message_by_id(posts[p].message_id))
    /\ posts' = [posts EXCEPT ![p] = NoPost]
    /\ last' = Obs("send_message", p, posts[p].user_id, posts[p].reply_to_id,
                   posts[p].channel_id, posts[p].message_id, 200, <<>>, <<>>)
    /\ UNCHANGED <<user_role, user_order, ban_expires, mute_expires, invites,
                   registration_mode, mod_log, messages, next_message, now, hub_vars,
                   cache_vars, conn_vars, sfu_vars, reg_vars, svc_vars>>

\* routes/messages.rs verify_message_in_channel
verify_message_in_channel(message_id, channel_id) ==
    IF get_message_by_id(message_id) = NoMessage THEN 404
    ELSE IF get_message_by_id(message_id).channel_id # channel_id THEN 404
    ELSE 200

\* an ownership check that does not look at the author
verify_message_ownership_lax(message_id, channel_id, user_id) ==
    verify_message_in_channel(message_id, channel_id)

\* routes/messages.rs verify_message_ownership
verify_message_ownership(message_id, channel_id, user_id) ==
    IF get_message_by_id(message_id) = NoMessage THEN 404
    ELSE IF get_message_by_id(message_id).author_id # user_id THEN 403
    ELSE IF get_message_by_id(message_id).channel_id # channel_id THEN 404
    ELSE 200

\* AppState::broadcast_channel from a REST handler
broadcast_channel(c, evs) ==
    LET sent == ChannelAfter(channel_broadcasts, broadcast_rx, c, evs)
    IN /\ channel_broadcasts' = sent.planes
       /\ broadcast_rx' = sent.rx

\* routes/messages.rs edit_message
edit_message(u, c, message_id, content) ==
    /\ LET owned == verify_message_ownership(message_id, c, u)
           status == IF owned # 200 THEN owned
                     ELSE IF ~validate_message_content(content) THEN 400
                     ELSE 200
           evs == IF status = 200 THEN <<Event("message_edited", u, c)>> ELSE <<>>
       IN /\ messages' = IF status = 200
                         THEN [i \in DOMAIN messages |->
                                 IF messages[i].id = message_id
                                 THEN [messages[i] EXCEPT
                                         !.content = unwrap_or_default(content),
                                         !.edited = TRUE]
                                 ELSE messages[i]]
                         ELSE messages
          /\ broadcast_channel(c, evs)
          /\ last' = Obs("edit_message", 0, u, message_id, c, 0, status, evs, <<>>)
    /\ UNCHANGED <<user_role, user_order, ban_expires, mute_expires, invites,
                   registration_mode, mod_log, next_message, attachments,
                   preview_fetches, posts, now, online_users, voice_states,
                   global_broadcast, cache_vars, pc, conn_user, global_rx,
                   current_channel, left_channels, sfu_vars, reg_vars, svc_vars>>

\* DELETE FROM messages WHERE id = $1
WithoutMessage(message_id) ==
    SelectSeq(messages, LAMBDA msg : msg.id # message_id)

\* routes/messages.rs delete_message
delete_message(u, c, message_id) ==
    /\ LET status == IF ~UserExists(u) THEN 404
                     ELSE IF user_role[u] >= Moderator
                     THEN verify_message_in_channel(message_id, c)
                     ELSE verify_message_ownership(message_id, c, u)
           evs == IF status = 200 THEN <<Event("message_deleted", u, c)>> ELSE <<>>
       IN /\ messages' = IF status = 200 THEN WithoutMessage(message_id) ELSE messages
          /\ broadcast_channel(c, evs)
          /\ last' = Obs("delete_message", 0, u, message_id, c, 0, status, evs, <<>>)
    /\ UNCHANGED <<user_role, user_order, ban_expires, mute_expires, invites,
                   registration_mode, mod_log, next_message, attachments,
                   preview_fetches, posts, now, online_users, voice_states,
                   global_broadcast, cache_vars, pc, conn_user, global_rx,
                   current_channel, left_channels, sfu_vars, reg_vars, svc_vars>>

\* a mute check that never finds a mute
is_muted_never(u) == FALSE

\* permissions::is_muted
is_muted(u) == get_active_mute(u)

\* the "message" frame: handle_chat_message
ws_message(k, c, content, reply_to_id) ==
    /\ pc[k] = "open"
    /\ LET u == conn_user[k]
           muted == is_muted(u)
           subd == IF current_channel[k] # c
                   THEN SubscribeChannel(channel_broadcasts, broadcast_rx, k, c)
                   ELSE [planes |-> channel_broadcasts, rx |-> broadcast_rx]
           made == create_message(u, c, content, reply_to_id, NoAttachments, FALSE)
           valid == made.status = 200
           evs == IF valid THEN <<Event("message", u, c)>> ELSE <<>>
           sent == ChannelAfter(subd.planes, subd.rx, c, evs)
       IN /\ messages' = IF ~muted /\ valid
                         THEN Append(messages, made.message)
                         ELSE messages
          /\ next_message' = IF ~muted /\ valid THEN next_message + 1 ELSE next_message
          /\ preview_fetches' = IF ~muted /\ valid
                                THEN FetchesAfter(made.message)
                                ELSE preview_fetches
          /\ current_channel' = IF muted THEN current_channel
                                ELSE [current_channel EXCEPT ![k] = c]
          /\ channel_broadcasts' = IF muted THEN channel_broadcasts ELSE sent.planes
          /\ broadcast_rx' = IF muted THEN broadcast_rx ELSE sent.rx
          /\ last' = Obs("ws_message", k, u,
                         IF ~muted /\ valid THEN made.reply_to ELSE 0, c,
                         IF valid THEN 1 ELSE 0,
                         IF muted THEN 403 ELSE made.status,
                         IF muted THEN <<>> ELSE evs, <<>>)
    /\ UNCHANGED <<user_role, user_order, ban_expires, mute_expires, invites,
                   registration_mode, mod_log, attachments, posts, now, online_users,
                   voice_states, global_broadcast, pc, conn_user, global_rx,
                   left_channels, sfu_vars, reg_vars, cache_vars, svc_vars>>

\* the "join" frame: handle_join
ws_join(k, c) ==
    /\ pc[k] = "open"
    /\ LET subd == SubscribeChannel(channel_broadcasts, broadcast_rx, k, c)
       IN /\ channel_broadcasts' = subd.planes
          /\ broadcast_rx' = subd.rx
    /\ current_channel' = [current_channel EXCEPT ![k] = c]
    /\ last' = Obs("ws_join", k, conn_user[k], 0, c, 0, 0, <<>>, <<>>)
    /\ UNCHANGED <<db_vars, now, online_users, voice_states, global_broadcast, pc,
                   conn_user, global_rx, left_channels, sfu_vars, reg_vars,
                   cache_vars, svc_vars>>

\* the "leave" frame
ws_leave(k) ==
    /\ pc[k] = "open"
    /\ current_channel' = [current_channel EXCEPT ![k] = NoChan]
    /\ broadcast_rx' = [broadcast_rx EXCEPT ![k] = NoChannelRx]
    /\ last' = Obs("ws_leave", k, conn_user[k], 0, 0, 0, 0, <<>>, <<>>)
    /\ UNCHANGED <<db_vars, now, hub_vars, pc, conn_user, global_rx, left_channels,
                   sfu_vars, reg_vars,
                   cache_vars, svc_vars>>

\* the broadcast_rx.recv() arm of the loop
ws_channel_recv(k, send_ok) ==
    /\ pc[k] = "open"
    /\ broadcast_rx[k].sub
    /\ broadcast_rx[k].lagged \/ broadcast_rx[k].behind > 0
    /\ IF broadcast_rx[k].lagged
       THEN /\ broadcast_rx' = [broadcast_rx EXCEPT ![k].lagged = FALSE]
            /\ pc' = pc
            /\ last' = Obs("ws_channel_recv", k, conn_user[k], 0, broadcast_rx[k].chan,
                           0, 0, <<>>, IF send_ok THEN <<SyncRequired>> ELSE <<>>)
       ELSE LET c == broadcast_rx[k].chan
                ev == NextValue(channel_broadcasts[c].log, broadcast_rx[k].behind)
            IN /\ broadcast_rx' = [broadcast_rx EXCEPT ![k].behind = @ - 1]
               /\ pc' = IF send_ok THEN pc ELSE [pc EXCEPT ![k] = "cleanup"]
               /\ last' = Obs("ws_channel_recv", k, conn_user[k], 0, c, 0, 0, <<>>,
                              IF send_ok THEN <<ev>> ELSE <<>>)
    /\ UNCHANGED <<db_vars, now, hub_vars, conn_user, global_rx, current_channel,
                   left_channels, sfu_vars, reg_vars,
                   cache_vars, svc_vars>>

\* ---------------------------------------------------------- initial states
\* database::seed_data: promote the oldest user when no owner exists
seed_data(roles, order) ==
    IF {u \in Users : roles[u] = Owner} = {} /\ order # <<>>
    THEN [roles EXCEPT ![Head(order)] = Owner]
    ELSE roles

InitHub ==
    /\ online_users = {}
    /\ voice_states = [c \in Chans |-> NoVoice]
    /\ global_broadcast = <<>>
    /\ channel_broadcasts = [c \in Chans |-> [present |-> FALSE, log |-> <<>>]]
    /\ banned_users = {}
    /\ muted_users = {}

InitConns ==
    /\ pc = [k \in Conns |-> "idle"]
    /\ conn_user = [k \in Conns |-> 0]
    /\ global_rx = [k \in Conns |-> NoReceiver]
    /\ current_channel = [k \in Conns |-> NoChan]
    /\ broadcast_rx = [k \in Conns |-> NoChannelRx]
    /\ left_channels = [k \in Conns |-> {}]

InitSfu ==
    /\ connections = [t \in Tids |-> NoConnection]
    /\ transports = {}
    /\ channel_connections = [c \in Chans |-> {}]
    /\ user_connections = [p \in Chans \X Users |-> {}]
    /\ producers = {}
    /\ consumers = {}
    /\ next_transport = 1
    /\ next_producer = 1
    /\ next_consumer = 1
    /\ worker_calls = {}

InitRegs ==
    /\ reg_pc = [r \in Regs |-> "idle"]
    /\ reg_req = [r \in Regs |-> NoReq]

NoRouter == 0
NoRouterCall == [pc |-> "idle", op |-> "none", channel_id |-> NoChan, user_id |-> 0,
                 router |-> NoRouter]

NoChallenge == [user_id |-> NoUser, challenge |-> 0, created |-> 0]
NotIssued == [created |-> 0 - 1, completed |-> 0]

NoBucket == [tokens |-> 0 - 1, last_refill |-> 0]
NoRateCall == [pc |-> "idle", user_id |-> NoUser, now |-> 0]

NoSfuCall == [pc |-> "idle", op |-> "none", caller |-> 0, transport |-> 0, producer |-> 0]

NoLeaveCall == [pc |-> "idle", user_id |-> 0, channel_id |-> NoChan, empty |-> FALSE]

InitSvc ==
    /\ reactions = {}
    /\ announced = {}
    /\ previewed = [m \in 1..NumMessageIds |-> 0]
    /\ rx_closed = {}
    /\ deleted_channels = {}
    /\ leave_calls = [q \in LeaveCalls |-> NoLeaveCall]
    /\ sfu_calls = [q \in SfuCalls |-> NoSfuCall]
    /\ message_rate_limits = [u \in Users |-> NoBucket]
    /\ rate_calls = [q \in RateCalls |-> NoRateCall]
    /\ rate_clock = 0
    /\ webauthn_reg_state = [u \in Users |-> NoChallenge]
    /\ webauthn_auth_state = [key \in Challenges |-> NoChallenge]
    /\ user_passkeys = {}
    /\ instant = 0
    /\ next_sweep = 0
    /\ ceremonies = [ch \in Challenges |-> NotIssued]
    /\ http_requests = {}
    /\ routers = [c \in Chans |-> NoRouter]
    /\ created_routers = {}
    /\ transport_router = [t \in Tids |-> NoRouter]
    /\ router_calls = [q \in RouterCalls |-> NoRouterCall]
    /\ lock_held = [p \in Lockers |-> {}]
    /\ lock_prog = [p \in Lockers |-> <<>>]

\* the tables other than users, as the migrations and seed_data leave them
InitTables ==
    /\ ban_expires = [u \in Users |-> NoRow]
    /\ mute_expires = [u \in Users |-> NoRow]
    /\ invites = [c \in Codes |-> NoInvite]
    /\ registration_mode = "open"
    /\ mod_log = <<>>
    /\ messages = <<>>
    /\ next_message = 1
    /\ attachments = [a \in Aids |-> NoAttachment]
    /\ preview_fetches = {}
    /\ posts = [p \in Posts |-> NoPost]
    /\ now = 0

\* a server on which every user has registered: the first one is the owner
Registered == [u \in Users |-> IF u = 1 THEN Owner ELSE Member]

InitRunning ==
    /\ user_role = Registered
    /\ user_order = [i \in 1..NumUsers |-> i]
    /\ InitTables /\ InitHub /\ InitConns /\ InitSfu /\ InitRegs /\ InitSvc
    /\ last = NoObs

\* the users that open WebSocket connections, and those that join voice
Clients == 2..(NumClients + 1)
Talkers == 2..(NumTalkers + 1)
\* the connections of the voice specification
Sessions == 1..NumSessions

Init == InitRunning

\* connection lifecycle, bans and logins
Next ==
    \/ \E k \in Conns, token \in Clients \cup {BadToken} : ws_handshake(k, token)
    \/ \E k \in Conns : ws_connect(k)
    \/ \E k \in Conns : ws_subscribe(k)
    \/ \E k \in Conns : ws_close(k)
    \/ \E k \in Conns, send_ok \in BOOLEAN : ws_global_recv(k, send_ok)
    \/ \E k \in Conns : ws_cleanup_collect(k)
    \/ \E k \in Conns : ws_cleanup_presence(k)
    \/ \E target \in Clients, hours \in Durations : ban_user(1, target, hours)
    \/ \E target \in Clients : unban_user(1, target)
    \/ \E u \in Clients, password_ok \in BOOLEAN : login(u, password_ok)
    \/ Tick

Spec == Init /\ [][Next]_vars

\* connection lifecycle with voice membership and SFU transports
NextVoice ==
    \/ \E k \in Sessions, token \in Clients : ws_handshake(k, token)
    \/ \E k \in Sessions : ws_connect(k)
    \/ \E k \in Sessions : ws_subscribe(k)
    \/ \E k \in Sessions : ws_close(k)
    \/ \E k \in Sessions : ws_cleanup_collect(k)
    \/ \E k \in Sessions, c \in Chans : ws_cleanup_channel(k, c)
    \/ \E k \in Sessions : ws_cleanup_presence(k)
    \/ \E u \in Talkers, c \in Chans : join_voice_channel(u, c)
    \/ \E u \in Clients, c \in Chans : create_transport(u, c)

SpecVoice == Init /\ [][NextVoice]_vars

\* the cleanup is straight-line code of a spawned task: once the loop has ended
\* the runtime keeps polling the task until it returns
FairCleanup ==
    \A k \in Sessions :
        /\ WF_vars(ws_cleanup_collect(k))
        /\ WF_vars(\E c \in Chans : ws_cleanup_channel(k, c))
        /\ WF_vars(ws_cleanup_presence(k))

FairSpecVoice == SpecVoice /\ FairCleanup

\* ---------------------------------------------------- ban and mute caches
\* SELECT ... FROM bans WHERE expires_at IS NULL OR expires_at > NOW(), on the
\* table `rows`: the user ids of the rows returned
get_all_bans(rows) == {u \in Users : ActiveRow(rows[u])}

get_all_mutes(rows) == {u \in Users : ActiveRow(rows[u])}

\* DELETE FROM bans WHERE expires_at IS NOT NULL AND expires_at <= NOW()
cleanup_expired(rows) ==
    [u \in Users |-> IF rows[u] # NoRow /\ rows[u] # Never /\ rows[u] <= now
                     THEN NoRow ELSE rows[u]]

\* cache.retain(|id| active_ids.contains(id)); then cache_ban / cache_mute of
\* every active row
rebuild_cache(cache, active_ids) == {id \in cache : id \in active_ids} \cup active_ids

\* main.rs: one round of the periodic cleanup task
cleanup_task ==
    /\ ban_expires' = cleanup_expired(ban_expires)
    /\ mute_expires' = cleanup_expired(mute_expires)
    /\ banned_users' = rebuild_cache(banned_users, get_all_bans(cleanup_expired(ban_expires)))
    /\ muted_users' = rebuild_cache(muted_users, get_all_mutes(cleanup_expired(mute_expires)))
    /\ last' = Obs("cleanup_task", 0, 0, 0, 0, 0, 0, <<>>, <<>>)
    /\ UNCHANGED <<user_role, user_order, invites, registration_mode, mod_log, msg_vars,
                   now, hub_vars, conn_vars, sfu_vars, reg_vars, svc_vars>>

\* process restart: in-flight requests and the in-memory hub are gone, the
\* database stays, seed_data runs before the server accepts requests
Restart ==
    /\ user_role' = seed_data(user_role, user_order)
    /\ reg_pc' = [r \in Regs |-> "idle"]
    /\ reg_req' = [r \in Regs |-> NoReq]
    /\ posts' = [p \in Posts |-> NoPost]
    /\ banned_users' = get_all_bans(ban_expires)
    /\ muted_users' = get_all_mutes(mute_expires)
    /\ last' = Obs("restart", 0, 0, 0, 0, 0, 0, <<>>, <<>>)
    /\ UNCHANGED <<user_order, ban_expires, mute_expires, invites, registration_mode,
                   mod_log, messages, next_message, attachments, preview_fetches, now,
                   hub_vars, conn_vars, sfu_vars, svc_vars>>

\* a fresh installation: no users
InitAuth ==
    /\ user_role = seed_data([u \in Users |-> NoUser], <<>>)
    /\ user_order = <<>>
    /\ InitTables /\ InitHub /\ InitConns /\ InitSfu /\ InitRegs /\ InitSvc
    /\ last = NoObs

Modes == {"open", "invite_only"}

\* the users that register in the registration specifications
Applicants == 1..NumApplicants

\* registration in open mode, role changes and restarts
NextAuth ==
    \/ \E r \in Regs, u \in Applicants : register_begin(r, u, NoCode)
    \/ \E r \in Regs : register_count(r)
    \/ \E r \in Regs : register_create(r)
    \/ \E actor \in Applicants, target \in Applicants, new_role \in Roles :
          change_user_role(actor, target, new_role)
    \/ Restart

SpecAuth == InitAuth /\ [][NextAuth]_vars

\* a server started on a database whose users table is empty: seed_data
\* inserts registration_mode = 'open' only when the row is absent
\* (ON CONFLICT DO NOTHING), so either mode can be in force
InitInstall ==
    /\ user_role = seed_data([u \in Users |-> NoUser], <<>>)
    /\ user_order = <<>>
    /\ ban_expires = [u \in Users |-> NoRow]
    /\ mute_expires = [u \in Users |-> NoRow]
    /\ invites = [c \in Codes |-> NoInvite]
    /\ registration_mode \in Modes
    /\ mod_log = <<>>
    /\ messages = <<>>
    /\ next_message = 1
    /\ attachments = [a \in Aids |-> NoAttachment]
    /\ preview_fetches = {}
    /\ posts = [p \in Posts |-> NoPost]
    /\ now = 0
    /\ InitHub /\ InitConns /\ InitSfu /\ InitRegs /\ InitSvc
    /\ last = NoObs

SpecInstall == InitInstall /\ [][NextAuth]_vars

\* registration with invites
NextInvite ==
    \/ \E r \in Regs, u \in Applicants, code \in Codes \cup {NoCode} :
          register_begin(r, u, code)
    \/ \E r \in Regs : register_count(r)
    \/ \E r \in Regs : register_create(r)
    \/ \E code \in Codes, max \in {NoMax} \cup (0..MaxInviteUses), hours \in Durations :
          create_invite(1, code, max, hours)
    \/ \E code \in Codes : revoke_invite(1, code)
    \/ \E value \in Modes : update_setting(1, value)
    \/ Tick

SpecInvite == InitAuth /\ [][NextInvite]_vars

\* the role tables a running server can hold: user 1 registered first
RoleTables ==
    {f \in [Users -> Roles] : f[1] = Owner /\ \A u \in Users \ {1} : f[u] # Owner}

InitMod ==
    /\ user_role \in RoleTables
    /\ user_order = [i \in 1..NumUsers |-> i]
    /\ InitTables /\ InitHub /\ InitConns /\ InitSfu /\ InitRegs /\ InitSvc
    /\ last = NoObs

\* the moderation handlers
NextMod ==
    \/ \E actor \in Users, target \in Users : kick_user(actor, target)
    \/ \E actor \in Users, target \in Users : ban_user(actor, target, Never)
    \/ \E actor \in Users, target \in Users : unban_user(actor, target)
    \/ \E actor \in Users, target \in Users : mute_user(actor, target, Never)
    \/ \E actor \in Users, target \in Users : unmute_user(actor, target)
    \/ \E actor \in Users, target \in Users, new_role \in Roles :
          change_user_role(actor, target, new_role)

SpecMod == InitMod /\ [][NextMod]_vars

\* the SFU routes, called by any authenticated user
NextSfu ==
    \/ \E u \in Talkers, c \in Chans : create_transport(u, c)
    \/ \E caller \in Talkers, t \in Tids : connect_transport(caller, t)
    \/ \E caller \in Talkers, t \in Tids : produce(caller, t)
    \/ \E caller \in Talkers, t \in Tids, p \in 1..NumProducers : consume(caller, t, p)
    \/ \E caller \in Talkers, t \in Tids : close_connection(caller, t)

SpecSfu == Init /\ [][NextSfu]_vars

\* a running server with a moderator (user 2) next to the owner and a member
Staffed == [u \in Users |-> IF u = 1 THEN Owner ELSE IF u = 2 THEN Moderator ELSE Member]

InitPost ==
    /\ user_role = Staffed
    /\ user_order = [i \in 1..NumUsers |-> i]
    /\ InitTables /\ InitHub /\ InitConns /\ InitSfu /\ InitRegs /\ InitSvc
    /\ last = NoObs

\* the users that write, edit and delete messages over REST
Writers == 2..NumUsers

\* SendMessageRequest::content and EditMessageRequest::content
PostContents == {NoContent, Text(0, 1), Text(1, 0), Text(MAX_MESSAGE_LENGTH, 1)}

\* attachment_ids naming no stored row: none, or one more than the limit
NoRowLists == {[ids |-> {}, len |-> n] : n \in {0, MAX_ATTACHMENTS_PER_MESSAGE + 1}}

\* the REST message routes
NextPost ==
    \/ \E u \in Writers, c \in Chans, content \in PostContents,
          reply_to_id \in {0} \cup MessageIds, attachment_ids \in NoRowLists :
          /\ Len(messages) < MaxMessages
          /\ next_message <= NumMessageIds
          /\ send_message(1, u, c, content, reply_to_id, attachment_ids)
    \/ \E u \in Writers, c \in Chans, message_id \in MessageIds,
          content \in PostContents \ {NoContent} :
          edit_message(u, c, message_id, content)
    \/ \E u \in Writers, c \in Chans, message_id \in MessageIds :
          delete_message(u, c, message_id)

SpecPost == InitPost /\ [][NextPost]_vars

\* moderation by the owner, the clock and the periodic cleanup task
NextCache ==
    \/ \E target \in Clients, hours \in Durations : ban_user(1, target, hours)
    \/ \E target \in Clients : unban_user(1, target)
    \/ \E target \in Clients, hours \in Durations : mute_user(1, target, hours)
    \/ \E target \in Clients : unmute_user(1, target)
    \/ cleanup_task
    \/ Tick

SpecCache == Init /\ [][NextCache]_vars

\* one user sending over one WebSocket connection and over REST
NextRate ==
    \/ \E k \in Sessions, token \in Clients : ws_handshake(k, token)
    \/ \E k \in Sessions : ws_connect(k)
    \/ \E k \in Sessions : ws_subscribe(k)
    \/ \E k \in Sessions :
          Len(messages) < MaxBurst /\ ws_message(k, 1, Text(1, 0), 0)
    \/ \E u \in Clients :
          Len(messages) < MaxBurst /\ send_message(1, u, 1, Text(1, 0), 0, NoAttachments)
    \/ Tick

SpecRate == Init /\ [][NextRate]_vars

\* attachment_ids of a request: the stored rows it names, and its length
AttachmentLists ==
    {l \in [ids : SUBSET Aids, len : 0..(NumAttachments + 1)] :
        l.len >= Cardinality(l.ids)}

\* uploads and REST messages with attachments
NextAttach ==
    \/ \E u \in Writers, a \in Aids : upload_attachment(u, a)
    \/ \E p \in Posts, u \in Writers, content \in {NoContent, Text(1, 0)},
          attachment_ids \in AttachmentLists :
          /\ Len(messages) < MaxMessages
          /\ send_message(p, u, 1, content, 0, attachment_ids)
    \/ \E p \in Posts : send_message_link(p)

SpecAttach == InitPost /\ [][NextAttach]_vars

\* the content of a "message" frame (ChatMessage::content is a String)
FrameContents == {Text(0, 1), Text(1, 0)}

\* chat over the WebSocket, with mutes

NextChat ==
    \/ \E k \in Sessions, token \in Clients : ws_handshake(k, token)
    \/ \E k \in Sessions : ws_connect(k)
    \/ \E k \in Sessions : ws_subscribe(k)
    \/ \E k \in Sessions : ws_close(k)
    \/ \E k \in Sessions, send_ok \in BOOLEAN : ws_global_recv(k, send_ok)
    \/ \E k \in Sessions : ws_cleanup_collect(k)
    \/ \E k \in Sessions : ws_cleanup_presence(k)
    \/ \E k \in Sessions, c \in Chans, content \in FrameContents,
          reply_to_id \in {0} \cup {messages[i].id : i \in DOMAIN messages} :
          Len(messages) < MaxMessages /\ ws_message(k, c, content, reply_to_id)
    \/ \E u \in Clients, c \in Chans :
          Len(messages) < MaxMessages /\ send_message(1, u, c, Text(1, 0), 0, NoAttachments)
    \/ \E k \in Sessions, c \in Chans : ws_join(k, c)
    \/ \E k \in Sessions : ws_leave(k)
    \/ \E k \in Sessions, send_ok \in BOOLEAN : ws_channel_recv(k, send_ok)
    \/ \E target \in Clients, hours \in Durations : mute_user(1, target, hours)
    \/ \E target \in Clients : unmute_user(1, target)
    \/ Tick

SpecChat == Init /\ [][NextChat]_vars

\* ------------------------------------------------------------------ claims
\* the values connection k can still read from the global plane
Unread(k) ==
    IF ~global_rx[k].sub THEN {}
    ELSE {global_broadcast[i] :
            i \in (Len(global_broadcast) - global_rx[k].behind + 1)..Len(global_broadcast)}

\* connection k is upgraded, registered in presence and not yet closed
IsOpen(k) == pc[k] \in {"connected", "open"}

\* C1: every user appears in at most one channel of the voice map, because a
\* join evicts the user's previous membership.
C1_OneVoiceChannelPerUser ==
    \A u \in Users : Cardinality({c \in Chans : u \in voice_states[c].users}) <= 1

\* C2: when a ban of user U completes while U has an open connection, each such
\* connection can read the user_banned event (so that it is forwarded and the
\* loop exits), whatever the interleaving with the connection's own start.
C2_BanReachesOpenConnections ==
    [][(last'.op = "ban" /\ last'.status = 200)
         => \A k \in Conns :
              (IsOpen(k) /\ conn_user[k] = last'.target)
                => Event("user_banned", last'.target, NoChan) \in Unread(k)']_vars

\* C3: a user has a presence entry exactly while at least one of the user's
\* connections is open; closing one of two connections keeps the entry.
C3_PresenceIffOpenConnection ==
    \A u \in Users :
        /\ (\E k \in Conns : IsOpen(k) /\ conn_user[k] = u) => u \in online_users
        /\ u \in online_users => \E k \in Conns : pc[k] # "idle" /\ conn_user[k] = u

\* the step refused the caller: nothing registered, nothing published, no loop
C5_NothingStarted ==
    /\ online_users' = online_users
    /\ global_broadcast' = global_broadcast
    /\ global_rx' = global_rx
    /\ pc' = pc

C5_Step ==
    /\ last'.op = "ws_handshake" =>
         /\ last'.status \in {401, 403, 101}
         /\ (last'.status = 401) <=> (last'.actor = BadToken)
         /\ last'.actor # BadToken =>
              ((last'.status = 403) <=>
                 /\ ban_expires[last'.actor] # NoRow
                 /\ (ban_expires[last'.actor] = Never \/ ban_expires[last'.actor] > now))
         /\ last'.status # 101 => C5_NothingStarted
    /\ (last'.op = "login" /\ last'.arg = 1 /\ user_role[last'.actor] # NoUser) =>
         /\ last'.status \in {403, 200}
         /\ (last'.status = 403) <=>
              /\ ban_expires[last'.actor] # NoRow
              /\ (ban_expires[last'.actor] = Never \/ ban_expires[last'.actor] > now)

\* C5: the WebSocket handshake (403) and the password login are refused exactly
\* when the user has an active ban (no expiry, or an expiry strictly later than
\* now); an invalid token gives 401; a refused handshake inserts no presence,
\* publishes nothing and starts no loop.
C5_BanRefusesHandshakeAndLogin == [][C5_Step]_vars

\* a handshake refused for a ban that carries an expiry time
C5_Witness ==
    /\ last.op = "ws_handshake"
    /\ last.status = 403
    /\ ban_expires[last.actor] > now

C4_Step ==
    /\ last'.op = "ws_cleanup_collect" =>
         /\ pc[last'.conn] = "cleanup"
         /\ \A c \in Chans : last'.actor \notin voice_states'[c].users
         /\ left_channels'[last'.conn] =
              {c \in Chans : last'.actor \in voice_states[c].users}
    /\ last'.op = "ws_cleanup_channel" =>
         /\ last'.chan \in left_channels[last'.conn]
         /\ left_channels'[last'.conn] = left_channels[last'.conn] \ {last'.chan}
         /\ voice_states[last'.chan].users = {} => ~voice_states'[last'.chan].present
         /\ \A t \in Tids :
              ~(/\ connections'[t].live
                /\ connections'[t].channel_id = last'.chan
                /\ connections'[t].user_id = last'.actor)
         /\ \A t \in transports \ transports' : connections[t].user_id = last'.actor
         /\ last'.emitted = <<Event("voice_user_left", last'.actor, last'.chan)>>
    /\ last'.op = "ws_cleanup_presence" =>
         /\ left_channels[last'.conn] = {}
         /\ last'.actor \notin online_users'
         /\ last'.emitted = <<Event("user_offline", last'.actor, NoChan)>>
         /\ pc'[last'.conn] = "idle"
    /\ \A k \in Conns :
         (pc[k] \in {"cleanup", "leaving"} /\ pc'[k] # pc[k])
            => last'.op \in {"ws_cleanup_collect", "ws_cleanup_presence"}

\* C4: whenever a connection's loop ends the cleanup runs to its end: the user is
\* removed from every voice channel, emptied entries are dropped, the user's SFU
\* connections in those channels are closed, voice_user_left is published once
\* per channel the user occupied, and then the presence entry is removed and
\* user_offline is published.
C4_CleanupAlwaysRuns ==
    /\ [][C4_Step]_vars
    /\ \A k \in Sessions :
         (pc[k] \in {"cleanup", "leaving"})
            ~> (last.op = "ws_cleanup_presence" /\ last.conn = k)

\* the last channel of a cleanup is done: its entry was dropped, a transport of
\* the user was closed and only the presence step remains
C4_Witness ==
    /\ last.op = "ws_cleanup_channel"
    /\ left_channels[last.conn] = {}
    /\ ~voice_states[last.chan].present
    /\ next_transport > 1
    /\ transports = {}

C6_Step ==
    (/\ last'.op = "ws_message"
     /\ mute_expires[last'.actor] # NoRow
     /\ (mute_expires[last'.actor] = Never \/ mute_expires[last'.actor] > now))
    => /\ messages' = messages
       /\ channel_broadcasts' = channel_broadcasts
       /\ broadcast_rx' = broadcast_rx
       /\ global_broadcast' = global_broadcast
       /\ last'.emitted = <<>>
       /\ last'.frames = <<>>
       /\ pc[last'.conn] = "open"
       /\ pc' = pc

\* C6: a "message" frame from a muted user persists nothing, publishes no
\* message event, sends no frame back, and leaves the connection open.
C6_MutedMessageDropped == [][C6_Step]_vars

\* a muted user, subscribed to the channel, sent a valid message
C6_Witness ==
    /\ last.op = "ws_message"
    /\ last.status = 403
    /\ last.arg = 1
    /\ pc[last.conn] = "open"
    /\ broadcast_rx[last.conn].sub
    /\ broadcast_rx[last.conn].chan = last.chan

SfuOps == {"connect_transport", "produce", "consume", "close_connection"}

\* C7: connect_transport, produce, consume and close_connection succeed only
\* when the caller is the user recorded on the transport's connection.
C7_OnlyOwnerSucceeds ==
    (last.op \in SfuOps /\ last.status = 200) => last.actor = last.target

C8_Step ==
    LET a == last'.actor
        t == last'.target
    IN /\ (last'.op \in {"kick", "ban", "mute"} /\ last'.status = 200) =>
            /\ user_role[a] >= Moderator
            /\ user_role[a] > user_role[t]
       /\ (last'.op = "role_change" /\ last'.status = 200) =>
            /\ user_role[a] >= Admin
            /\ user_role[a] > user_role[t]
            /\ user_role[t] # Owner
            /\ last'.arg # Owner
            /\ last'.arg < user_role[a]
            /\ user_role' = [user_role EXCEPT ![t] = last'.arg]
       /\ (last'.op \in {"kick", "ban", "mute", "role_change"}
             /\ user_role[a] = user_role[t]) => last'.status = 403
       /\ last'.op = "role_change" =>
            \A u \in Users : (user_role[u] = Owner) <=> (user_role'[u] = Owner)
       /\ (last'.op \in {"kick", "ban", "mute", "role_change"} /\ last'.status # 200) =>
            /\ user_role' = user_role
            /\ ban_expires' = ban_expires
            /\ mute_expires' = mute_expires
            /\ mod_log' = mod_log
            /\ last'.emitted = <<>>

\* C8: kick, ban, mute and role change succeed only when the actor's role is at
\* least Moderator (Admin for a role change) and strictly greater than the
\* target's; equal roles and self-targeting give 403; a role change never
\* assigns Owner, never changes an Owner and never assigns a role that is not
\* below the actor's.
C8_RoleHierarchy == [][C8_Step]_vars

\* a moderator was refused a ban of another moderator
C8_Witness ==
    /\ last.op = "ban"
    /\ last.status = 403
    /\ last.actor # last.target
    /\ user_role[last.actor] = Moderator
    /\ user_role[last.target] = Moderator

\* C9: once any user exists there is exactly one Owner.
C9_ExactlyOneOwner ==
    get_user_count > 0 => Cardinality({u \in Users : user_role[u] = Owner}) = 1

C10_Step ==
    LET c == last'.arg
        begun == last'.op = "register_begin"
        refused == last'.op = "register" /\ last'.status = 400
    IN (registration_mode = "invite_only" /\ c \in Codes /\ (begun \/ refused)) =>
         /\ begun <=> /\ invites[c].exists
                      /\ ~invites[c].revoked
                      /\ (invites[c].max_uses = NoMax \/ invites[c].uses < invites[c].max_uses)
                      /\ (invites[c].expires_at = Never \/ invites[c].expires_at > now)
         /\ begun => invites' = [invites EXCEPT ![c].uses = @ + 1, ![c].granted = @ + 1]
         /\ refused => invites' = invites

\* C10: for an invite with max_uses = n, uses of the code succeed at most n
\* times however they interleave (a usable single-use code is granted to the
\* first caller and refused to the next), and uses never exceeds max_uses.
C10_InviteUsesBounded ==
    /\ [][C10_Step]_vars
    /\ [](\A c \in Codes :
            (invites[c].exists /\ invites[c].max_uses # NoMax) =>
               /\ invites[c].uses <= invites[c].max_uses
               /\ invites[c].granted <= invites[c].max_uses)

\* a register was refused a single-use code whose one use is held by another
\* register that is still in flight
C10_Witness ==
    /\ last.op = "register"
    /\ last.status = 400
    /\ last.arg \in Codes
    /\ invites[last.arg].max_uses = 1
    /\ invites[last.arg].granted = 1
    /\ ~invites[last.arg].revoked
    /\ invites[last.arg].expires_at = Never
    /\ \E r \in Regs : reg_pc[r] # "idle" /\ reg_req[r].code = last.arg

C11_Step ==
    LET c == last'.arg
        begun == last'.op = "register_begin"
        done == last'.op = "register"
        usable == /\ c \in Codes
                  /\ invites[c].exists
                  /\ ~invites[c].revoked
                  /\ (invites[c].max_uses = NoMax \/ invites[c].uses < invites[c].max_uses)
                  /\ (invites[c].expires_at = Never \/ invites[c].expires_at > now)
    IN /\ (registration_mode = "invite_only" /\ (begun \/ (done /\ reg_pc[last'.conn] = "idle"))) =>
            /\ c = NoCode => done /\ last'.status = 403
            /\ (c # NoCode /\ ~usable) => done /\ last'.status = 400
            /\ usable => begun
            /\ (usable /\ invites[c].max_uses = 1) =>
                  /\ invites'[c].uses = 1
                  /\ invites'[c].uses >= invites'[c].max_uses
            /\ done => /\ user_role' = user_role
                       /\ user_order' = user_order
                       /\ invites' = invites
       /\ (done /\ last'.status = 200) =>
            /\ user_role[last'.actor] = NoUser
            /\ user_role'[last'.actor] # NoUser

C12_Step ==
    /\ (/\ get_user_count = 0
        /\ last'.op \in {"register", "register_begin"}
        /\ reg_pc[last'.conn] = "idle"
        /\ last'.arg = NoCode) => last'.op = "register_begin"
    /\ (/\ get_user_count = 0
        /\ last'.op = "register"
        /\ reg_pc[last'.conn] = "counted"
        /\ last'.status = 200) => user_role'[last'.actor] = Owner

\* C12: when the users table is empty, a register without an invite code is
\* let through in either registration mode, and the user it creates is Owner.
C12_FirstUserBypassesInvite ==
    [][C12_Step]_vars

C13_Step ==
    LET op == last'.op
        u == last'.actor
        msg == get_message_by_id(last'.target)
        mine == msg # NoMessage /\ msg.author_id = u
        here == msg # NoMessage /\ msg.channel_id = last'.chan
        staff == user_role[u] # NoUser /\ user_role[u] >= Moderator
        allowed == IF op = "delete_message" THEN here /\ (mine \/ staff)
                   ELSE here /\ mine
    IN op \in {"delete_message", "edit_message"} =>
         /\ last'.status = 200 => allowed
         /\ (op = "delete_message" /\ allowed) => last'.status = 200
         /\ ~allowed =>
              /\ last'.status # 200
              /\ messages' = messages
              /\ last'.emitted = <<>>
              /\ channel_broadcasts' = channel_broadcasts
              /\ broadcast_rx' = broadcast_rx
         /\ (op = "delete_message" /\ last'.status = 200) =>
              /\ \A i \in DOMAIN messages' : messages'[i].id # last'.target
              /\ last'.emitted = <<Event("message_deleted", u, last'.chan)>>
         /\ (op = "edit_message" /\ last'.status = 200) =>
              last'.emitted = <<Event("message_edited", u, last'.chan)>>

\* C13: delete_message succeeds only for the message's author or a caller whose
\* stored role is Moderator or higher, and only when the message is in the
\* channel of the path; edit_message succeeds only for the author. Otherwise
\* the messages table is unchanged and no event is published.
C13_OnlyAuthorOrModerator ==
    [][C13_Step]_vars

\* a member who is not the author was refused the deletion of a message that
\* is in the channel of the path
C13_Witness ==
    /\ last.op = "delete_message"
    /\ last.status = 403
    /\ user_role[last.actor] = Member
    /\ get_message_by_id(last.target) # NoMessage
    /\ get_message_by_id(last.target).author_id # last.actor
    /\ get_message_by_id(last.target).channel_id = last.chan

\* C14: while a user has an active ban row the ban cache contains the user,
\* from the moment ban_user has answered and across rebuilds of the cache; the
\* same for mutes and the mute cache.
C14_CacheCoversActiveRows ==
    /\ \A u \in Users : get_active_ban(u) => u \in banned_users
    /\ \A u \in Users : get_active_mute(u) => u \in muted_users

\* C15: for every user, the messages persisted within one instant of the clock
\* (hence within any one-second window) number at most the bucket size plus
\* one second of refill, over the WebSocket and the REST path together.
C15_RateLimited ==
    \A u \in Users, t \in 0..MaxTime :
        Cardinality({i \in DOMAIN messages :
                        messages[i].author_id = u /\ messages[i].created_at = t})
            <= MESSAGE_RATE_LIMIT + MESSAGE_RATE_REFILL_PER_SEC

C16_Step ==
    \A a \in Aids :
        /\ attachments[a].message_id # 0 => attachments'[a] = attachments[a]
        /\ (attachments[a].message_id = 0 /\ attachments'[a].message_id # 0) =>
              /\ last'.op = "send_message"
              /\ attachments'[a].message_id = last'.arg
              /\ attachments'[a].message_id = posts[last'.conn].message_id
              /\ a \in posts[last'.conn].attachment_ids
              /\ attachments[a].exists
              /\ attachments[a].uploader_id = get_message_by_id(last'.arg).author_id
        /\ \A p \in Posts :
              (/\ posts[p].pc = "inserted" /\ posts'[p].pc = "idle"
               /\ a \in posts[p].attachment_ids
               /\ attachments[a].exists
               /\ attachments[a].uploader_id = posts[p].user_id
               /\ attachments[a].message_id = 0)
              => attachments'[a].message_id = posts[p].message_id

\* C16: an attachment is linked to a message only by the link step of that
\* message's pipeline, only when its uploader is the message's author and it
\* was unlinked; a linked attachment never changes, so of two messages that
\* name the same attachment concurrently the one that links first receives it
\* and the other is created without it.
C16_AttachmentLinkedOnce ==
    [][C16_Step]_vars

\* two requests named the same attachment; both messages are inserted, the
\* request that linked first holds the attachment, the other is still in flight
C16_Witness ==
    \E p \in Posts, a \in Aids :
        /\ posts[p].pc = "inserted"
        /\ a \in posts[p].attachment_ids
        /\ attachments[a].uploader_id = posts[p].user_id
        /\ attachments[a].message_id # 0
        /\ attachments[a].message_id # posts[p].message_id
        /\ last.op = "send_message"
        /\ last.conn # p
        /\ last.arg = attachments[a].message_id
        /\ attachments[a].message_id > posts[p].message_id

\* C17: every persisted message whose pipeline has completed has content that
\* is non-empty after trimming and at most MAX_MESSAGE_LENGTH long, or at
\* least one attachment linked to it.
C17_ContentOrAttachment ==
    \A i \in DOMAIN messages :
        (\A p \in Posts : posts[p].message_id # messages[i].id) =>
            \/ /\ messages[i].content.text # 0
               /\ messages[i].content.text + messages[i].content.pad <= MAX_MESSAGE_LENGTH
            \/ \E a \in Aids : /\ attachments[a].exists
                               /\ attachments[a].message_id = messages[i].id

C18_Request(content, attachment_ids) ==
    LET p == last'.conn
        u == last'.actor
        c == last'.chan
        reply_to_id == last'.target
        replied == IF \E i \in DOMAIN messages : messages[i].id = reply_to_id
                   THEN {messages[i] : i \in {j \in DOMAIN messages :
                                                 messages[j].id = reply_to_id}}
                   ELSE {}
        content_ok == IF content.some /\ content.text # 0
                      THEN content.text + content.pad <= MAX_MESSAGE_LENGTH
                      ELSE attachment_ids.len # 0
        count_ok == attachment_ids.len <= MAX_ATTACHMENTS_PER_MESSAGE
    IN send_message(p, u, c, content, reply_to_id, attachment_ids) =>
         /\ (~content_ok \/ ~count_ok) => last'.status = 400
         /\ (content_ok /\ count_ok /\ reply_to_id # 0 /\ replied = {}) =>
               /\ last'.status = 404
               /\ last'.frames = <<"Replied-to message not found">>
         /\ (/\ content_ok /\ count_ok /\ reply_to_id # 0
             /\ \E msg \in replied : msg.channel_id # c) =>
               /\ last'.status = 400
               /\ last'.frames = <<"Cannot reply to a message in a different channel">>
         /\ (/\ content_ok /\ count_ok
             /\ (reply_to_id # 0 => \E msg \in replied : msg.channel_id = c)) =>
               last'.status \in {0, 200}
         /\ last'.status \in {400, 404} =>
               /\ messages' = messages
               /\ next_message' = next_message
               /\ attachments' = attachments
               /\ preview_fetches' = preview_fetches
               /\ posts' = posts

C18_Step ==
    (/\ last'.op \in {"send_message", "send_message_insert"}
     /\ posts[last'.conn].pc = "idle"
     /\ mute_expires[last'.actor] = NoRow) =>
        \A content \in PostContents, attachment_ids \in NoRowLists :
            C18_Request(content, attachment_ids)

\* C18: a REST send_message whose reply_to_id names a message of another
\* channel is refused with 400 "Cannot reply to a message in a different
\* channel", and with 404 when the replied-to message does not exist; this and
\* every other validation failure (content, more than five attachments)
\* inserts no message, links no attachment and spawns no preview fetch.
C18_ValidationFailureHasNoEffect ==
    [][C18_Step]_vars

\* a reply to a message of the other channel was refused
C18_Witness ==
    /\ last.op = "send_message"
    /\ last.status = 400
    /\ last.frames = <<"Cannot reply to a message in a different channel">>
    /\ get_message_by_id(last.target) # NoMessage
    /\ get_message_by_id(last.target).channel_id # last.chan

C19_Step ==
    LET c == last'.chan
        sent == messages'[Len(messages')]
        replied == get_message_by_id(sent.reply_to_id)
    IN (/\ last'.op = "ws_message"
        /\ last'.status = 200
        /\ sent.reply_to_id # 0
        /\ replied # NoMessage
        /\ replied.channel_id # c) =>
          /\ messages' = Append(messages, sent)
          /\ sent.channel_id = c
          /\ last'.emitted = <<Event("message", last'.actor, c)>>
          /\ last'.target = 0

\* C19: a WebSocket chat message to channel B whose reply_to_id names a
\* message of another channel A is persisted and published on B, and the
\* published message carries no reply preview.
C19_CrossChannelPreviewDropped ==
    [][C19_Step]_vars

\* the number of message events among the values of a plane
C20_MessageEvents(log) ==
    Cardinality({i \in DOMAIN log : log[i].type = "message"})

C20_Step ==
    LET k == last'.conn
        c == last'.chan
        ev == Event("message", last'.actor, c)
        created == last'.op = "ws_message" /\ last'.status = 200
    IN /\ created =>
            /\ Len(messages') = Len(messages) + 1
            /\ messages'[Len(messages')].channel_id = c
            /\ last'.emitted = <<ev>>
            /\ current_channel'[k] = c
            /\ broadcast_rx'[k].sub
            /\ broadcast_rx'[k].chan = c
            /\ broadcast_rx'[k].behind >= 1
            /\ channel_broadcasts'[c].present
            /\ channel_broadcasts'[c].log # <<>>
            /\ channel_broadcasts'[c].log[Len(channel_broadcasts'[c].log)] = ev
            /\ (broadcast_rx[k].sub /\ broadcast_rx[k].chan = c /\ ~broadcast_rx'[k].lagged) =>
                  broadcast_rx'[k].behind = broadcast_rx[k].behind + 1
            /\ ~(broadcast_rx[k].sub /\ broadcast_rx[k].chan = c) =>
                  broadcast_rx'[k].behind = 1
            /\ \A d \in Chans \ {c} :
                  channel_broadcasts'[d].log = channel_broadcasts[d].log
            /\ global_broadcast' = global_broadcast
       /\ ~created =>
            /\ \A i \in DOMAIN last'.emitted : last'.emitted[i].type # "message"
            /\ \A d \in Chans :
                  C20_MessageEvents(channel_broadcasts'[d].log)
                     <= C20_MessageEvents(channel_broadcasts[d].log)
            /\ C20_MessageEvents(global_broadcast') <= C20_MessageEvents(global_broadcast)
       /\ last'.op \in {"send_message", "send_message_insert"} =>
            /\ last'.emitted = <<>>
            /\ channel_broadcasts' = channel_broadcasts
            /\ broadcast_rx' = broadcast_rx
            /\ global_broadcast' = global_broadcast
            /\ global_rx' = global_rx

\* C20: a message created over the WebSocket is published exactly once, as a
\* message event on the plane of its channel, after the sending connection has
\* been subscribed to that channel, so the sender's own receiver holds it; no
\* other step publishes a message event, and a message created over REST
\* publishes nothing.
C20_PublishedOnceAfterSubscribe ==
    [][C20_Step]_vars

\* a connection that had selected no channel sent a valid message and holds
\* its own message event unread
C20_Witness ==
    /\ last.op = "ws_message"
    /\ last.status = 200
    /\ broadcast_rx[last.conn].sub
    /\ broadcast_rx[last.conn].chan = last.chan
    /\ broadcast_rx[last.conn].behind = 1
    /\ Len(channel_broadcasts[last.chan].log) = 1
    /\ Len(messages) = 2
    /\ messages[1].channel_id # last.chan

C21_Types ==
    [kick |-> "user_kicked", ban |-> "user_banned", unban |-> "user_unbanned",
     mute |-> "user_muted", unmute |-> "user_unmuted",
     role_change |-> "user_role_changed"]

C21_Step ==
    LET op == last'.op
        a == last'.actor
        t == last'.target
    IN /\ Len(mod_log') >= Len(mod_log)
       /\ \A i \in DOMAIN mod_log : mod_log'[i] = mod_log[i]
       /\ op \in DOMAIN C21_Types =>
            IF last'.status = 200
            THEN /\ op = "ban" => ban_expires'[t] # NoRow /\ t \in banned_users'
                 /\ op = "unban" => ban_expires'[t] = NoRow /\ t \notin banned_users'
                 /\ op = "mute" => mute_expires'[t] # NoRow /\ t \in muted_users'
                 /\ op = "unmute" => mute_expires'[t] = NoRow /\ t \notin muted_users'
                 /\ op = "role_change" => user_role'[t] = last'.arg
                 /\ mod_log' = Append(mod_log, [action |-> op, moderator_id |-> a,
                                                target_user_id |-> t])
                 /\ last'.emitted = <<Event(C21_Types[op], t, NoChan)>>
            ELSE /\ mod_log' = mod_log
                 /\ last'.emitted = <<>>
                 /\ global_broadcast' = global_broadcast
                 /\ ban_expires' = ban_expires
                 /\ mute_expires' = mute_expires
                 /\ user_role' = user_role
                 /\ banned_users' = banned_users
                 /\ muted_users' = muted_users

\* C21: every successful kick, ban, unban, mute, unmute or role change writes
\* its row, updates the ban or mute cache, appends exactly one moderation log
\* entry with its action, actor and target, and publishes its global event; a
\* failed action appends nothing and publishes nothing; log entries are never
\* modified or removed.
C21_ModerationEffects ==
    [][C21_Step]_vars

\* ------------------------------------------------------------ image proxy
\* an address by the properties is_private_ip asks about; a v6 address of kind
\* "mapped" carries the kind of the v4 address it embeds
Ip4(kind) == [v |-> 4, kind |-> kind, v4 |-> "none"]
Ip6(kind, v4) == [v |-> 6, kind |-> kind, v4 |-> v4]

is_private_ip(ip) ==
    IF ip.v = 4
    THEN ip.kind \in {"loopback", "private", "link_local", "broadcast", "unspecified",
                      "metadata", "cgnat"}
    ELSE \/ ip.kind \in {"loopback", "unspecified"}
         \/ ip.kind = "mapped" /\ ip.v4 \in {"loopback", "private", "link_local", "metadata"}

is_safe_scheme(url) == url.scheme \in {"http", "https"}

\* hosts of a parsed URL: none, a v4 literal, a bracketed v6 literal, a name
NoHost == [kind |-> "none", ip |-> Ip4("none")]
Literal(ip) == [kind |-> "literal", ip |-> ip]
HostName == [kind |-> "name", ip |-> Ip4("none")]

\* host.parse::<IpAddr>() succeeds for a v4 literal only: host_str() keeps the
\* brackets of a v6 literal
ParsesAsIp(host) == host.kind = "literal" /\ host.ip.v = 4

\* lookup_host: a bracketed v6 literal is its own address, a name is resolved
LookupError == <<Ip4("error")>>
lookup_host(host, dns) == IF host.kind = "literal" THEN <<host.ip>> ELSE dns

is_safe_url(url, dns) ==
    IF ~is_safe_scheme(url) THEN FALSE
    ELSE IF ~url.parses THEN FALSE
    ELSE IF url.host = NoHost THEN FALSE
    ELSE IF ParsesAsIp(url.host) THEN ~is_private_ip(url.host.ip)
    ELSE LET addrs == lookup_host(url.host, dns)
         IN  IF addrs = LookupError THEN FALSE
             ELSE IF addrs = <<>> THEN FALSE
             ELSE \A i \in 1..Len(addrs) : ~is_private_ip(addrs[i])

\* HMAC-SHA256 as the pair it is a function of; NotHex is a sig hex::decode rejects
NotHex == [url |-> [scheme |-> "none", parses |-> FALSE, host |-> NoHost], key |-> "none"]
sign_image_url(image_url, secret) == [url |-> image_url, key |-> secret]
verify_image_signature(image_url, sig, secret) ==
    IF sig = NotHex THEN FALSE ELSE sig = sign_image_url(image_url, secret)

hmac_secret == "HMAC_SECRET"

\* GET /api/proxy/image?url=..&sig=..; decoded: the url parameter is base64url of
\* UTF-8; response: what the upstream answers when the request is sent
proxy_image(decoded, image_url, sig, dns, response) ==
    LET status == IF ~decoded THEN 400
                  ELSE IF ~verify_image_signature(image_url, sig, hmac_secret) THEN 403
                  ELSE IF ~is_safe_url(image_url, dns) THEN 400
                  ELSE IF response = "error" THEN 500
                  ELSE IF response = "not_image" THEN 400
                  ELSE IF response = "too_large" THEN 400
                  ELSE 200
        error == IF ~decoded THEN "Invalid URL encoding"
                 ELSE IF ~verify_image_signature(image_url, sig, hmac_secret)
                      THEN "Invalid signature"
                 ELSE IF ~is_safe_url(image_url, dns) THEN "URL failed safety check"
                 ELSE IF response = "error" THEN "Internal server error"
                 ELSE IF response = "not_image" THEN "Not an image"
                 ELSE IF response = "too_large" THEN "Image too large"
                 ELSE "image"
        sent == /\ decoded
                /\ verify_image_signature(image_url, sig, hmac_secret)
                /\ is_safe_url(image_url, dns)
    IN  /\ http_requests' = IF sent THEN http_requests \cup {image_url} ELSE http_requests
        /\ last' = Obs("proxy_image", 0, 0, 0, 0, 0, status, <<>>, <<error>>)
        /\ UNCHANGED <<db_vars, now, hub_vars, cache_vars, conn_vars, sfu_vars, reg_vars,
                       svc_but_http>>

\* the requests of the proxy specification
ProxyHosts ==
    {NoHost, HostName} \cup
    {Literal(ip) : ip \in {Ip4("public"), Ip4("loopback"), Ip4("private"), Ip4("metadata"),
                           Ip6("public", "none"), Ip6("loopback", "none"),
                           Ip6("unique_local", "none"), Ip6("link_local", "none")}}
ProxyUrls ==
    {[scheme |-> s, parses |-> TRUE, host |-> h] : s \in {"http", "ftp"}, h \in ProxyHosts}
    \cup {[scheme |-> "http", parses |-> FALSE, host |-> NoHost]}
OtherUrl(url) == [url EXCEPT !.scheme = IF url.scheme = "ftp" THEN "http" ELSE "ftp"]
ProxySigs(url) ==
    {NotHex, sign_image_url(url, hmac_secret), sign_image_url(url, "JWT_SECRET"),
     sign_image_url(OtherUrl(url), hmac_secret)}
Resolutions ==
    {LookupError, <<>>, <<Ip4("public")>>, <<Ip4("private")>>, <<Ip4("cgnat")>>,
     <<Ip4("public"), Ip4("loopback")>>, <<Ip6("mapped", "private")>>,
     <<Ip6("mapped", "public")>>, <<Ip4("public"), Ip6("link_local", "none")>>}
ProxyResolutions(url) == IF url.host = HostName THEN Resolutions ELSE {LookupError}
\* the upstream answers only a request that is sent
Responses == {"error", "not_image", "too_large", "image"}
ProxyResponses(url, sig, dns) ==
    IF verify_image_signature(url, sig, hmac_secret) /\ is_safe_url(url, dns)
    THEN Responses ELSE {"none"}
ProxyRequests ==
    {[decoded |-> FALSE, image_url |-> url, sig |-> NotHex, dns |-> LookupError,
      response |-> "none"] : url \in {OtherUrl(NotHex.url)}}
    \cup UNION {UNION {UNION {
           {[decoded |-> TRUE, image_url |-> url, sig |-> sig, dns |-> dns,
             response |-> response] : response \in ProxyResponses(url, sig, dns)}
           : dns \in ProxyResolutions(url)} : sig \in ProxySigs(url)} : url \in ProxyUrls}

NextProxy ==
    \E r \in ProxyRequests : proxy_image(r.decoded, r.image_url, r.sig, r.dns, r.response)

SpecProxy == Init /\ [][NextProxy]_vars

\* the addresses the guard is specified to refuse
IsInternal(ip) ==
    \/ ip.kind \in {"loopback", "private", "unique_local", "link_local", "metadata"}
    \/ ip.kind = "mapped" /\ ip.v4 \in {"loopback", "private", "link_local", "metadata"}
HostIsOrResolvesToInternal(url, dns) ==
    LET addrs == lookup_host(url.host, dns)
    IN  /\ url.parses /\ url.host # NoHost /\ addrs # LookupError
        /\ \E i \in 1..Len(addrs) : IsInternal(addrs[i])

C22_Sent == http_requests' # http_requests
C22_Guarded(decoded, image_url, sig, dns) ==
    /\ C22_Sent => /\ decoded
                   /\ sig = sign_image_url(image_url, hmac_secret)
                   /\ is_safe_url(image_url, dns)
                   /\ http_requests' = http_requests \cup {image_url}
    /\ (decoded /\ sig # sign_image_url(image_url, hmac_secret))
          => last'.status = 403 /\ ~C22_Sent
C22_Refused(decoded, image_url, sig, dns) ==
    (decoded /\ sig = sign_image_url(image_url, hmac_secret)
       /\ HostIsOrResolvesToInternal(image_url, dns))
          => /\ last'.status = 400
             /\ last'.frames = <<"URL failed safety check">>
             /\ ~C22_Sent
C22_Step ==
    \A r \in ProxyRequests :
       proxy_image(r.decoded, r.image_url, r.sig, r.dns, r.response)
          => /\ C22_Guarded(r.decoded, r.image_url, r.sig, r.dns)
             /\ C22_Refused(r.decoded, r.image_url, r.sig, r.dns)

\* C22: proxy_image sends a request only for a URL whose signature verifies under
\* the HMAC secret and that passes the SSRF guard; a bad signature is answered 403,
\* a correctly signed URL whose host is or resolves to a private, loopback,
\* link-local or metadata address is answered 400 "URL failed safety check", and
\* in both cases nothing is sent.
C22_ProxyGuard == [][C22_Step]_vars

\* the part of C22 that does not depend on the address families the guard knows
C22_OnlySignedAndChecked ==
    [][\A r \in ProxyRequests :
          proxy_image(r.decoded, r.image_url, r.sig, r.dns, r.response)
             => C22_Guarded(r.decoded, r.image_url, r.sig, r.dns)]_vars

\* invites created, revoked, validated and redeemed by one register at a time
NextValidate ==
    \/ \E u \in Applicants, code \in Codes \cup {NoCode} : register_begin(1, u, code)
    \/ register_count(1)
    \/ register_create(1)
    \/ \E code \in Codes, max \in {NoMax, 1}, hours \in {Never, MaxHours} :
          create_invite(1, code, max, hours)
    \/ \E code \in Codes : revoke_invite(1, code)
    \/ \E code \in Codes : validate_invite(code)
    \/ update_setting(1, "invite_only")
    \/ Tick

SpecValidate == InitAuth /\ [][NextValidate]_vars

\* usable as the specification words it
C23_Usable(c) ==
    /\ invites[c].exists
    /\ ~invites[c].revoked
    /\ (invites[c].max_uses = NoMax \/ invites[c].uses < invites[c].max_uses)
    /\ (invites[c].expires_at = Never \/ invites[c].expires_at > now)

C23_Step ==
    LET c == last'.arg
    IN /\ last'.op = "validate_invite" =>
            /\ last'.status = 200
            /\ last'.frames = <<[valid |-> C23_Usable(c)]>>
            /\ invites' = invites
       /\ (last'.op \in {"register_begin", "register"} /\ c \in Codes
             /\ registration_mode = "invite_only" /\ invites' # invites) =>
            /\ C23_Usable(c)
            /\ invites' = [invites EXCEPT ![c].uses = @ + 1, ![c].granted = @ + 1]
       /\ (last'.op = "register" /\ last'.status = 400 /\ c \in Codes
             /\ registration_mode = "invite_only") => ~C23_Usable(c)

\* C23: use_invite_code and validate_invite accept an invite exactly when it
\* exists, is not revoked, has uses < max_uses (or no max_uses) and has expires_at
\* unset or strictly later than now; they agree in every state; validate_invite
\* answers 200 {valid: false} for an unknown code.
C23_InviteUsableAgreement ==
    /\ [][C23_Step]_vars
    /\ [](\A c \in Codes :
            /\ use_invite_code(c).ok = invite_valid(invites[c])
            /\ invite_valid(invites[c]) = C23_Usable(c))

\* validate_invite answered valid: false for an unrevoked invite with uses left
\* at the instant it expires
C23_Witness ==
    /\ last.op = "validate_invite"
    /\ last.frames = <<[valid |-> FALSE]>>
    /\ invites[last.arg].exists
    /\ ~invites[last.arg].revoked
    /\ invites[last.arg].max_uses = NoMax
    /\ invites[last.arg].expires_at = now

\* the revoke and delete routes, each target created, removed and removed again
NextRepeat ==
    \/ \E code \in Codes : create_invite(1, code, NoMax, Never)
    \/ \E code \in Codes : revoke_invite(1, code)
    \/ ban_user(1, 3, Never)
    \/ unban_user(1, 3)
    \/ mute_user(1, 3, Never)
    \/ unmute_user(1, 3)
    \/ \E c \in Chans :
          /\ Len(messages) < MaxMessages
          /\ next_message <= NumMessageIds
          /\ send_message(1, 2, c, Text(1, 0), 0, NoAttachments)
    \/ \E c \in Chans, message_id \in MessageIds : delete_message(2, c, message_id)

SpecRepeat == InitPost /\ [][NextRepeat]_vars

\* the operation of the step finds its target already revoked or removed
C24_Repeated ==
    \/ last'.op = "revoke_invite" /\ invites[last'.arg].exists /\ invites[last'.arg].revoked
    \/ last'.op = "delete_message" /\ get_message_by_id(last'.target) = NoMessage
    \/ last'.op = "unban" /\ ban_expires[last'.target] = NoRow
    \/ last'.op = "unmute" /\ mute_expires[last'.target] = NoRow

C24_Step ==
    C24_Repeated => /\ last'.status = 404
                    /\ last'.emitted = <<>>
                    /\ UNCHANGED db_vars

\* C24: a revoke or delete repeated on the same id (revoke_invite,
\* delete_message, unban_user, unmute_user) is answered 404 the second time and
\* changes no row.
C24_RepeatIsNotFound == [][C24_Step]_vars

\* C24 without revoke_invite
C24_RepeatedDeleteIsNotFound ==
    [][(C24_Repeated /\ last'.op # "revoke_invite") => C24_Step]_vars

\* two connections on both planes; the owner posts and deletes over REST faster
\* than the connections read
NextLag ==
    \/ \E k \in Conns : ws_handshake(k, k + 1)
    \/ \E k \in Conns : ws_connect(k)
    \/ \E k \in Conns : ws_subscribe(k)
    \/ \E k \in Conns : ws_close(k)
    \/ \E k \in Conns, send_ok \in BOOLEAN : ws_global_recv(k, send_ok)
    \/ \E k \in Conns : ws_cleanup_collect(k)
    \/ \E k \in Conns : ws_cleanup_presence(k)
    \/ ws_join(1, 1)
    \/ \E send_ok \in BOOLEAN : ws_channel_recv(1, send_ok)
    \/ /\ Len(messages) < MaxMessages
       /\ next_message <= NumMessageIds
       /\ send_message(1, 1, 1, Text(1, 0), 0, NoAttachments)
    \/ \E message_id \in MessageIds : delete_message(1, 1, message_id)

SpecLag == Init /\ [][NextLag]_vars

C25_GlobalStep(k, send_ok) ==
    LET rx == global_rx[k]
    IN ws_global_recv(k, send_ok) =>
         IF rx.lagged
         THEN /\ last'.frames = IF send_ok THEN <<SyncRequired>> ELSE <<>>
              /\ pc'[k] = "open"
              /\ global_rx'[k] = [sub |-> TRUE, behind |-> rx.behind, lagged |-> FALSE]
              /\ global_broadcast' = global_broadcast
              /\ current_channel' = current_channel
              /\ broadcast_rx' = broadcast_rx
         ELSE /\ send_ok => last'.frames =
                   <<global_broadcast[Len(global_broadcast) - rx.behind + 1]>>
              /\ global_rx'[k].behind = rx.behind - 1
              /\ \A i \in 1..(rx.behind - 1) :
                    global_broadcast'[Len(global_broadcast') - i + 1]
                       = global_broadcast[Len(global_broadcast) - i + 1]

C25_ChannelStep(k, send_ok) ==
    LET rx == broadcast_rx[k]
        log == channel_broadcasts[rx.chan].log
    IN ws_channel_recv(k, send_ok) =>
         IF rx.lagged
         THEN /\ last'.frames = IF send_ok THEN <<SyncRequired>> ELSE <<>>
              /\ pc'[k] = "open"
              /\ broadcast_rx'[k] = [rx EXCEPT !.lagged = FALSE]
              /\ channel_broadcasts' = channel_broadcasts
              /\ current_channel' = current_channel
              /\ global_rx' = global_rx
         ELSE /\ send_ok => last'.frames = <<log[Len(log) - rx.behind + 1]>>
              /\ broadcast_rx'[k].behind = rx.behind - 1
              /\ channel_broadcasts' = channel_broadcasts

C25_Step ==
    \A k \in Conns, send_ok \in BOOLEAN :
       C25_GlobalStep(k, send_ok) /\ C25_ChannelStep(k, send_ok)

\* C25: a connection whose global or channel receiver reports lag sends one
\* sync_required frame, stays open, keeps its subscriptions and its place in the
\* plane, and afterwards reads the retained events oldest first.
C25_LagRecovery == [][C25_Step]_vars

\* after a lag signal on its channel receiver the connection is open, has both
\* receivers, and has a full window of retained events to read
C25_Witness ==
    /\ last.op = "ws_channel_recv"
    /\ last.frames = <<SyncRequired>>
    /\ pc[last.conn] = "open"
    /\ global_rx[last.conn].sub
    /\ broadcast_rx[last.conn].sub
    /\ broadcast_rx[last.conn].behind = ChannelCap

\* connections of users 2 and 3 while the owner kicks and bans
Kickable == {2, 3}

NextKick ==
    \/ \E k \in Conns, token \in Kickable : ws_handshake(k, token)
    \/ \E k \in Conns : ws_connect(k)
    \/ \E k \in Conns : ws_subscribe(k)
    \/ \E k \in Conns : ws_close(k)
    \/ \E k \in Conns, send_ok \in BOOLEAN : ws_global_recv(k, send_ok)
    \/ \E k \in Conns : ws_cleanup_collect(k)
    \/ \E k \in Conns : ws_cleanup_presence(k)
    \/ \E target \in Kickable : kick_user(1, target)
    \/ \E target \in Kickable : ban_user(1, target, Never)

SpecKick == Init /\ [][NextKick]_vars

C26_Targets(ev, k) == ev.type \in {"user_kicked", "user_banned"} /\ ev.user_id = conn_user[k]

\* the loop's reaction to one event read from the global plane
C26_RecvStep(k, send_ok) ==
    LET ev == global_broadcast[Len(global_broadcast) - global_rx[k].behind + 1]
    IN (~global_rx[k].lagged /\ ws_global_recv(k, send_ok)) =>
          /\ send_ok => last'.frames = <<ev>>
          /\ C26_Targets(ev, k) => pc'[k] = "cleanup"
          /\ (~C26_Targets(ev, k) /\ send_ok) => pc'[k] = "open"
          /\ \A j \in Conns \ {k} : pc'[j] = pc[j]

\* a kick or ban is readable by every connection of the target, and stays
\* readable until the connection reads it or ends for another reason
C26_Delivered ==
    /\ (last'.op \in {"kick", "ban"} /\ last'.status = 200) =>
          \A k \in Conns :
             (IsOpen(k) /\ conn_user[k] = last'.target) =>
                \E ev \in Unread(k)' : C26_Targets(ev, k)
    /\ \A k \in Conns :
          (pc[k] = "open" /\ \E ev \in Unread(k) : C26_Targets(ev, k)) =>
             \/ pc'[k] # "open"
             \/ \E ev \in Unread(k)' : C26_Targets(ev, k)

C26_Step ==
    /\ \A k \in Conns, send_ok \in BOOLEAN : C26_RecvStep(k, send_ok)
    /\ C26_Delivered

\* C26: a connection's loop exits on a global event exactly when the event is
\* user_kicked or user_banned for the connection's user, after forwarding it;
\* every open connection of the targeted user exits; connections of other users
\* forward the event and keep running.
C26_TargetedExit == [][C26_Step]_vars

\* the reaction of a connection to the events it reads
C26_ExitRule == [][\A k \in Conns, send_ok \in BOOLEAN : C26_RecvStep(k, send_ok)]_vars

\* the SFU routes and the voice leave that closes a user's transports
NextClose ==
    \/ \E u \in Talkers, c \in Chans : create_transport(u, c)
    \/ \E caller \in Talkers, t \in Tids : produce(caller, t)
    \/ \E caller \in Talkers, t \in Tids, p \in 1..NumProducers : consume(caller, t, p)
    \/ \E t \in Tids : close_connection(2, t)
    \/ \E u \in Talkers, c \in Chans : leave_voice_channel(u, c)

SpecClose == Init /\ [][NextClose]_vars

\* transport t appears nowhere in the registry
C27_Gone(t) ==
    /\ ~connections'[t].live
    /\ t \notin transports'
    /\ \A c \in Chans : t \notin channel_connections'[c]
    /\ \A c \in Chans, u \in Users : t \notin user_connections'[<<c, u>>]

C27_CloseStep ==
    LET t == last'.arg
        conn == connections[t]
    IN last'.op = "close_connection" =>
         IF conn.live
         THEN /\ last'.status = 200
              /\ last'.target = conn.user_id
              /\ C27_Gone(t)
              /\ producers' = producers \ conn.producers
              /\ consumers' = consumers \ conn.consumer_ids
              /\ \A t2 \in Tids \ {t} : connections'[t2] = connections[t2]
              /\ transports' = transports \ {t}
         ELSE /\ last'.status # 200
              /\ last'.frames = <<"Connection not found">>
              /\ UNCHANGED <<connections, transports, channel_connections,
                             user_connections, producers, consumers>>

C27_LeaveStep ==
    LET c == last'.chan
        u == last'.actor
        mine == {t \in Tids : connections[t].live /\ connections[t].channel_id = c
                                /\ connections[t].user_id = u}
    IN last'.op = "leave_voice_channel" =>
         /\ \A t \in mine : C27_Gone(t)
         /\ user_connections'[<<c, u>>] = {}
         /\ \A t \in Tids \ mine : connections'[t] = connections[t]
         /\ mine = {} => UNCHANGED <<connections, transports, channel_connections,
                                     user_connections, producers, consumers>>

\* the four indices list the same transports
C27_Indices ==
    /\ transports = {t \in Tids : connections[t].live}
    /\ \A c \in Chans :
          channel_connections[c] =
             {t \in Tids : connections[t].live /\ connections[t].channel_id = c}
    /\ \A c \in Chans, u \in Users :
          user_connections[<<c, u>>] =
             {t \in Tids : connections[t].live /\ connections[t].channel_id = c
                             /\ connections[t].user_id = u}

\* C27: close_connection(t) removes t from the four indices together with the
\* producers and consumers it owned; closing t again fails with not-found and
\* changes nothing; after close_user_connections no connection of the pair is
\* left, and repeating it changes nothing.
C27_CloseRemovesEverywhere ==
    /\ [][C27_CloseStep /\ C27_LeaveStep]_vars
    /\ []C27_Indices

\* a transport that had a producer was closed, and closed a second time
C27_Witness ==
    /\ last.op = "close_connection"
    /\ last.status # 200
    /\ last.arg < next_transport
    /\ next_producer > 1
    /\ producers = {}

\* ------------------------------------------------------------ SFU routers
\* a call enters get_or_create_router: the routers.get() test. A hit returns
\* the stored router; a miss goes on to worker.create_router().await
get_or_create_router_lookup(q, op, u, c) ==
    /\ router_calls[q].pc = "idle"
    /\ router_calls' = [router_calls EXCEPT ![q] =
          [pc |-> IF routers[c] # NoRouter THEN "routed" ELSE "creating",
           op |-> op, channel_id |-> c, user_id |-> u, router |-> routers[c]]]
    /\ last' = Obs("get_or_create_router", q, u, 0, c, routers[c], 0, <<>>, <<>>)
    /\ UNCHANGED <<db_vars, now, hub_vars, cache_vars, conn_vars, sfu_vars, reg_vars,
                   svc_but_router, routers, created_routers, transport_router>>

\* the worker has created the router: routers.insert(channel_id, router)
get_or_create_router_insert(q) ==
    /\ router_calls[q].pc = "creating"
    /\ Cardinality(created_routers) < NumRouters
    /\ LET router == Cardinality(created_routers) + 1
           c == router_calls[q].channel_id
       IN /\ created_routers' = created_routers \cup {[id |-> router, channel_id |-> c]}
          /\ routers' = [routers EXCEPT ![c] = router]
          /\ router_calls' = [router_calls EXCEPT ![q].pc = "routed", ![q].router = router]
          /\ last' = Obs("create_router", q, router_calls[q].user_id, 0, c, router, 0,
                         <<>>, <<>>)
    /\ UNCHANGED <<db_vars, now, hub_vars, cache_vars, conn_vars, sfu_vars, reg_vars,
                   svc_but_router, transport_router>>

\* SfuService::get_router_capabilities with the router in hand
get_router_capabilities(q) ==
    /\ router_calls[q].pc = "routed"
    /\ router_calls[q].op = "get_router_capabilities"
    /\ router_calls' = [router_calls EXCEPT ![q] = NoRouterCall]
    /\ last' = Obs("get_router_capabilities", q, router_calls[q].user_id, 0,
                   router_calls[q].channel_id, router_calls[q].router, 200, <<>>, <<>>)
    /\ UNCHANGED <<db_vars, now, hub_vars, cache_vars, conn_vars, sfu_vars, reg_vars,
                   svc_but_router, routers, created_routers, transport_router>>

\* SfuService::create_transport with the router in hand:
\* router.create_webrtc_transport(), then the four index inserts
create_transport_on_router(q) ==
    /\ router_calls[q].pc = "routed"
    /\ router_calls[q].op = "create_transport"
    /\ next_transport <= NumTransports
    /\ LET t == next_transport
           u == router_calls[q].user_id
           c == router_calls[q].channel_id
       IN /\ transports' = transports \cup {t}
          /\ connections' = [connections EXCEPT ![t] =
                               [live |-> TRUE, channel_id |-> c, user_id |-> u,
                                producers |-> {}, consumer_ids |-> {}]]
          /\ channel_connections' = [channel_connections EXCEPT ![c] = @ \cup {t}]
          /\ user_connections' = [user_connections EXCEPT ![<<c, u>>] = @ \cup {t}]
          /\ next_transport' = next_transport + 1
          /\ worker_calls' = worker_calls \cup
                 {[op |-> "create_transport", transport |-> t, caller |-> u, owner |-> u]}
          /\ transport_router' = [transport_router EXCEPT ![t] = router_calls[q].router]
          /\ last' = Obs("create_transport", q, u, 0, c, t, 200, <<>>, <<>>)
    /\ router_calls' = [router_calls EXCEPT ![q] = NoRouterCall]
    /\ UNCHANGED <<db_vars, now, hub_vars, cache_vars, conn_vars, reg_vars, producers,
                   consumers, next_producer, next_consumer, svc_but_router, routers,
                   created_routers>>

\* concurrent SFU calls that need the channel's router
NextRouter ==
    \/ \E q \in RouterCalls, u \in Talkers, c \in Chans,
          op \in {"create_transport", "get_router_capabilities"} :
          get_or_create_router_lookup(q, op, u, c)
    \/ \E q \in RouterCalls : get_or_create_router_insert(q)
    \/ \E q \in RouterCalls : get_router_capabilities(q)
    \/ \E q \in RouterCalls : create_transport_on_router(q)

SpecRouter == Init /\ [][NextRouter]_vars

\* C28: at most one router is ever created per voice channel, every call for a
\* channel obtains that router, and all transports of a channel are on it.
C28_OneRouterPerChannel ==
    /\ \A c \in Chans : Cardinality({r \in created_routers : r.channel_id = c}) <= 1
    /\ \A q \in RouterCalls :
          router_calls[q].pc = "routed" => router_calls[q].router = routers[router_calls[q].channel_id]
    /\ \A t1 \in Tids, t2 \in Tids :
          (connections[t1].live /\ connections[t2].live
             /\ connections[t1].channel_id = connections[t2].channel_id)
            => transport_router[t1] = transport_router[t2]

\* a call that finds a stored router returns it and creates none
C28_StoredRouterReused ==
    [][\A q \in RouterCalls, u \in Talkers, c \in Chans :
          (routers[c] # NoRouter /\ get_or_create_router_lookup(q, "create_transport", u, c))
             => /\ router_calls'[q].pc = "routed"
                /\ router_calls'[q].router = routers[c]
                /\ created_routers' = created_routers
                /\ routers' = routers]_vars

\* ------------------------------------------- voice_states: shard locks
\* voice_states is DashMap<channel, DashMap<user, VoiceState>>. A guard of the
\* outer map (get, iter, entry, iter_mut) holds the shard lock of its channel,
\* a guard or a call of an inner map holds a shard lock of that inner map.
\* Every channel has its own outer shard here, every inner map one shard.
Outer(c) == [map |-> "outer", channel_id |-> c]
Inner(c) == [map |-> "inner", channel_id |-> c]
Acq(lock, mode) == [act |-> "acquire", lock |-> lock, mode |-> mode]
Rel(lock, mode) == [act |-> "release", lock |-> lock, mode |-> mode]

\* the lock operations of body(c) for c = 1, 2, .. in the map's iteration order
Traverse(body) ==
    LET flat[n \in 0..NumChans] == IF n = 0 THEN <<>> ELSE flat[n - 1] \o body[n]
    IN flat[NumChans]

\* voice.rs 48-52: entry(channel).or_insert_with(DashMap::new).insert(user, ..)
join_voice_channel_locks(c) ==
    <<Acq(Outer(c), "write"), Acq(Inner(c), "write"), Rel(Inner(c), "write"),
      Rel(Outer(c), "write")>>

\* voice.rs 84-90: get(channel); remove(user); is_empty(); drop; remove(channel)
leave_voice_channel_locks(c, empty) ==
    <<Acq(Outer(c), "read"), Acq(Inner(c), "write"), Rel(Inner(c), "write"),
      Acq(Inner(c), "read"), Rel(Inner(c), "read"), Rel(Outer(c), "read")>>
    \o (IF empty THEN <<Acq(Outer(c), "write"), Rel(Outer(c), "write")>> ELSE <<>>)

\* websocket.rs 363-383 (and voice.rs 163-176): get(channel); get_mut(user);
\* drop(voice_state); drop(channel_users)
modify_voice_state_locks(c, present) ==
    IF present
    THEN <<Acq(Outer(c), "read"), Acq(Inner(c), "write"), Rel(Inner(c), "write"),
           Rel(Outer(c), "read")>>
    ELSE <<Acq(Outer(c), "read"), Rel(Outer(c), "read")>>

\* models.rs 438-449: the keys are collected first, then each get(channel)
\* guard is held while the inner map is iterated
all_voice_states_locks ==
    Traverse([c \in Chans |-> <<Acq(Outer(c), "read"), Rel(Outer(c), "read")>>])
    \o Traverse([c \in Chans |->
                   <<Acq(Outer(c), "read"), Acq(Inner(c), "read"), Rel(Inner(c), "read"),
                     Rel(Outer(c), "read")>>])

\* auth_routes.rs 155-160 (rename) and 298-302 (avatar): for channel_users in
\* voice_states.iter() { channel_users.get_mut(user) }
update_profile_locks ==
    Traverse([c \in Chans |->
                <<Acq(Outer(c), "read"), Acq(Inner(c), "write"), Rel(Inner(c), "write"),
                  Rel(Outer(c), "read")>>])

\* models.rs 453-466 (and websocket.rs 238-250): iter_mut() with value_mut()
\* .remove(user), then remove_if(channel, |_, users| users.is_empty())
remove_user_from_voice_locks(left) ==
    Traverse([c \in Chans |->
                <<Acq(Outer(c), "write"), Acq(Inner(c), "write"), Rel(Inner(c), "write"),
                  Rel(Outer(c), "write")>>])
    \o Traverse([c \in Chans |->
                   IF c \in left
                   THEN <<Acq(Outer(c), "write"), Acq(Inner(c), "read"),
                          Rel(Inner(c), "read"), Rel(Outer(c), "write")>>
                   ELSE <<>>])

VoiceCalls ==
    {join_voice_channel_locks(c) : c \in Chans}
    \cup {leave_voice_channel_locks(c, empty) : c \in Chans, empty \in BOOLEAN}
    \cup {modify_voice_state_locks(c, present) : c \in Chans, present \in BOOLEAN}
    \cup {all_voice_states_locks, update_profile_locks}
    \cup {remove_user_from_voice_locks(left) : left \in {{}} \cup {{c} : c \in Chans}}

\* a read guard excludes writers, a write guard excludes every other guard,
\* the thread's own included: the shard locks are not reentrant
LockFree(p, lock, mode) ==
    \A p2 \in Lockers :
       \A h \in lock_held[p2] : h.lock = lock => (mode = "read" /\ h.mode = "read")

\* a thread enters one of the operations
voice_call(p, prog) ==
    /\ lock_prog[p] = <<>>
    /\ lock_prog' = [lock_prog EXCEPT ![p] = prog]
    /\ UNCHANGED <<db_vars, now, hub_vars, cache_vars, conn_vars, sfu_vars, reg_vars,
                   svc_but_lock, lock_held, last>>

CanAcquire(p) ==
    /\ lock_prog[p] # <<>>
    /\ Head(lock_prog[p]).act = "acquire"
    /\ LockFree(p, Head(lock_prog[p]).lock, Head(lock_prog[p]).mode)

lock_acquire(p) ==
    /\ CanAcquire(p)
    /\ lock_held' = [lock_held EXCEPT ![p] =
          @ \cup {[lock |-> Head(lock_prog[p]).lock, mode |-> Head(lock_prog[p]).mode]}]
    /\ lock_prog' = [lock_prog EXCEPT ![p] = Tail(@)]
    /\ UNCHANGED <<db_vars, now, hub_vars, cache_vars, conn_vars, sfu_vars, reg_vars,
                   svc_but_lock, last>>

CanRelease(p) == lock_prog[p] # <<>> /\ Head(lock_prog[p]).act = "release"

lock_release(p) ==
    /\ CanRelease(p)
    /\ lock_held' = [lock_held EXCEPT ![p] =
          @ \ {[lock |-> Head(lock_prog[p]).lock, mode |-> Head(lock_prog[p]).mode]}]
    /\ lock_prog' = [lock_prog EXCEPT ![p] = Tail(@)]
    /\ UNCHANGED <<db_vars, now, hub_vars, cache_vars, conn_vars, sfu_vars, reg_vars,
                   svc_but_lock, last>>

NextLocks ==
    \/ \E p \in Lockers, prog \in VoiceCalls : voice_call(p, prog)
    \/ \E p \in Lockers : lock_acquire(p)
    \/ \E p \in Lockers : lock_release(p)

SpecLocks == Init /\ [][NextLocks]_vars

\* no thread holds an outer shard lock together with an inner one, or while it
\* waits for an inner one
C29_NoNestedLocks ==
    \A p \in Lockers :
       (\E h \in lock_held[p] : h.lock.map = "outer") =>
          /\ \A h \in lock_held[p] : h.lock.map # "inner"
          /\ ~(lock_prog[p] # <<>> /\ Head(lock_prog[p]).act = "acquire"
                 /\ Head(lock_prog[p]).lock.map = "inner")

\* whenever a call is in progress some thread can take its next step
C29_NoDeadlock ==
    (\E p \in Lockers : lock_prog[p] # <<>>) =>
       \E p \in Lockers : CanAcquire(p) \/ CanRelease(p)

\* C29: no operation on voice_states holds a shard lock of the outer map while
\* it acquires or holds a lock of an inner map, and no interleaving of the
\* operations deadlocks.
C29_LockDiscipline == C29_NoNestedLocks /\ C29_NoDeadlock

\* ------------------------------------------------------- WebAuthn ceremonies

\* Uuid::nil(), the user of a challenge started without a username
NilUser == 0

\* a credential the client sends: the challenge it answers, or one that does
\* not deserialize
BadCredential == 0
Credentials == Challenges \cup {BadCredential}

\* the users that run ceremonies
Passkeyers == {2}

Issued(ch) == ceremonies[ch].created >= 0

\* the challenge a start handler draws
FreshChallenge == CHOOSE ch \in Challenges :
                     ~Issued(ch) /\ \A c2 \in Challenges : ~Issued(c2) => ch <= c2

Issue(ch) == [ceremonies EXCEPT ![ch] = [created |-> instant, completed |-> 0]]

Complete(ch) == [ceremonies EXCEPT ![ch].completed = @ + 1]

\* POST /api/auth/passkey/register/start
start_passkey_register(u) ==
    /\ UserExists(u)
    /\ \E ch \in Challenges : ~Issued(ch)
    /\ webauthn_reg_state' = [webauthn_reg_state EXCEPT ![u] =
          [user_id |-> u, challenge |-> FreshChallenge, created |-> instant]]
    /\ ceremonies' = Issue(FreshChallenge)
    /\ last' = Obs("start_passkey_register", 0, u, 0, 0, 0, 200, <<>>,
                   <<FreshChallenge>>)
    /\ UNCHANGED <<db_vars, now, hub_vars, cache_vars, conn_vars, sfu_vars, reg_vars,
                   svc_but_passkey, webauthn_auth_state, user_passkeys, instant,
                   next_sweep>>

\* POST /api/auth/passkey/register/finish; verifies is the verdict of the
\* WebAuthn verifier on a credential that answers the stored challenge
finish_passkey_register(u, credential, verifies) ==
    /\ UserExists(u)
    /\ LET pending == webauthn_reg_state[u]
           status == IF pending = NoChallenge THEN 400
                     ELSE IF credential = BadCredential THEN 400
                     ELSE IF credential # pending.challenge \/ ~verifies THEN 400
                     ELSE 200
           text == IF pending = NoChallenge
                      THEN <<"No pending passkey registration found">>
                   ELSE IF credential = BadCredential
                      THEN <<"Invalid registration credential">>
                   ELSE IF status = 400 THEN <<"Passkey registration failed">>
                   ELSE <<>>
       IN /\ webauthn_reg_state' = [webauthn_reg_state EXCEPT ![u] = NoChallenge]
          /\ user_passkeys' = IF status = 200 THEN user_passkeys \cup {u}
                              ELSE user_passkeys
          /\ ceremonies' = IF status = 200 THEN Complete(pending.challenge)
                           ELSE ceremonies
          /\ last' = Obs("finish_passkey_register", 0, u, credential, 0,
                         IF pending = NoChallenge THEN 0 ELSE instant - pending.created,
                         status, <<>>, text)
    /\ UNCHANGED <<db_vars, now, hub_vars, cache_vars, conn_vars, sfu_vars, reg_vars,
                   svc_but_passkey, webauthn_auth_state, instant, next_sweep>>

\* POST /api/auth/passkey/auth/start; username is NoUser when the request
\* names none
start_passkey_auth(username) ==
    /\ \E ch \in Challenges : ~Issued(ch)
    /\ LET status == IF username = NoUser THEN 200
                     ELSE IF ~UserExists(username) THEN 401
                     ELSE IF username \notin user_passkeys THEN 401
                     ELSE 200
           user_id == IF username = NoUser THEN NilUser ELSE username
           challenge_key == FreshChallenge
       IN /\ webauthn_auth_state' =
                IF status = 200
                THEN [webauthn_auth_state EXCEPT ![challenge_key] =
                        [user_id |-> user_id, challenge |-> challenge_key,
                         created |-> instant]]
                ELSE webauthn_auth_state
          /\ ceremonies' = IF status = 200 THEN Issue(challenge_key) ELSE ceremonies
          /\ last' = Obs("start_passkey_auth", 0, user_id, 0, 0, 0, status, <<>>,
                         IF status = 200 THEN <<challenge_key>> ELSE <<>>)
    /\ UNCHANGED <<db_vars, now, hub_vars, cache_vars, conn_vars, sfu_vars, reg_vars,
                   svc_but_passkey, webauthn_reg_state, user_passkeys, instant,
                   next_sweep>>

\* POST /api/auth/passkey/auth/finish; user_handle is the userHandle of the
\* credential, NoUser when it carries none
finish_passkey_auth(challenge_key, credential, user_handle, verifies) ==
    /\ LET pending == webauthn_auth_state[challenge_key]
           actual_user_id == IF pending.user_id = NilUser THEN user_handle
                             ELSE pending.user_id
           status == IF pending = NoChallenge THEN 400
                     ELSE IF credential = BadCredential THEN 400
                     ELSE IF credential # pending.challenge \/ ~verifies THEN 401
                     ELSE IF actual_user_id = NoUser THEN 401
                     ELSE IF get_active_ban(actual_user_id) THEN 403
                     ELSE IF ~UserExists(actual_user_id) THEN 401
                     ELSE 200
           text == IF pending = NoChallenge
                      THEN <<"No pending passkey authentication found">>
                   ELSE IF credential = BadCredential
                      THEN <<"Invalid authentication credential">>
                   ELSE IF credential # pending.challenge \/ ~verifies
                      THEN <<"Passkey authentication failed">>
                   ELSE IF actual_user_id = NoUser
                      THEN <<"Missing user handle in credential">>
                   ELSE IF status = 403 THEN <<"banned">>
                   ELSE IF status = 401 THEN <<"User not found">>
                   ELSE <<>>
       IN /\ webauthn_auth_state' = [webauthn_auth_state EXCEPT
                                       ![challenge_key] = NoChallenge]
          /\ ceremonies' = IF status = 200 THEN Complete(pending.challenge)
                           ELSE ceremonies
          /\ last' = Obs("finish_passkey_auth", 0,
                         IF pending = NoChallenge THEN NoUser ELSE actual_user_id,
                         credential, challenge_key,
                         IF pending = NoChallenge THEN 0 ELSE instant - pending.created,
                         status, <<>>, text)
    /\ UNCHANGED <<db_vars, now, hub_vars, cache_vars, conn_vars, sfu_vars, reg_vars,
                   svc_but_passkey, webauthn_reg_state, user_passkeys, instant,
                   next_sweep>>

\* one tick of the sweep's interval: retain(|_, (.., created)| *created > cutoff)
challenge_sweep ==
    /\ next_sweep <= instant
    /\ LET cutoff == instant - ChallengeTtl
       IN /\ webauthn_reg_state' = [u \in Users |->
                IF webauthn_reg_state[u] # NoChallenge
                   /\ webauthn_reg_state[u].created > cutoff
                THEN webauthn_reg_state[u] ELSE NoChallenge]
          /\ webauthn_auth_state' = [key \in Challenges |->
                IF webauthn_auth_state[key] # NoChallenge
                   /\ webauthn_auth_state[key].created > cutoff
                THEN webauthn_auth_state[key] ELSE NoChallenge]
    /\ next_sweep' = next_sweep + SweepPeriod
    /\ last' = Obs("challenge_sweep", 0, 0, 0, 0, instant, 200, <<>>, <<>>)
    /\ UNCHANGED <<db_vars, now, hub_vars, cache_vars, conn_vars, sfu_vars, reg_vars,
                   svc_but_passkey, user_passkeys, instant, ceremonies>>

\* the monotonic clock advances; a sweep that is due runs before it does
PasskeyTick ==
    /\ instant < MaxInstant
    /\ instant < next_sweep
    /\ instant' = instant + 1
    /\ last' = Obs("tick", 0, 0, 0, 0, instant + 1, 200, <<>>, <<>>)
    /\ UNCHANGED <<db_vars, now, hub_vars, cache_vars, conn_vars, sfu_vars, reg_vars,
                   svc_but_passkey, webauthn_reg_state, webauthn_auth_state,
                   user_passkeys, next_sweep, ceremonies>>

\* challenges are issued in the first minute and followed until they are swept
NextPasskey ==
    \/ \E u \in Passkeyers : instant <= LastIssue /\ start_passkey_register(u)
    \/ \E u \in Passkeyers, credential \in Credentials, verifies \in BOOLEAN :
          finish_passkey_register(u, credential, verifies)
    \/ \E username \in Passkeyers \cup {NoUser} :
          instant <= LastIssue /\ start_passkey_auth(username)
    \/ \E challenge_key \in Challenges, credential \in Credentials,
          user_handle \in Passkeyers \cup {NoUser}, verifies \in BOOLEAN :
          finish_passkey_auth(challenge_key, credential, user_handle, verifies)
    \/ challenge_sweep
    \/ PasskeyTick

SpecPasskey == Init /\ [][NextPasskey]_vars

C30_Finished ==
    last'.op \in {"finish_passkey_register", "finish_passkey_auth"} /\ last'.status = 200

\* the challenge the step completed a ceremony for
C30_Completed(ch) == ceremonies'[ch].completed = ceremonies[ch].completed + 1

\* a finish request succeeds for exactly one challenge, never completed before
C30_Once ==
    C30_Finished =>
       \E ch \in Challenges :
          /\ C30_Completed(ch)
          /\ Issued(ch) /\ ceremonies[ch].completed = 0
          /\ \A c2 \in Challenges \ {ch} : ceremonies'[c2] = ceremonies[c2]

\* the challenge is no older than 5 minutes when its ceremony completes
C30_InTime ==
    C30_Finished =>
       \A ch \in Challenges :
          C30_Completed(ch) => instant - ceremonies[ch].created <= ChallengeTtl

\* the challenge is younger than 5 minutes plus one period of the sweep
C30_BeforeSweep ==
    C30_Finished =>
       \A ch \in Challenges :
          C30_Completed(ch) =>
             instant - ceremonies[ch].created < ChallengeTtl + SweepPeriod

\* C30: a WebAuthn registration or authentication challenge completes a
\* ceremony at most once and only within 5 minutes of its creation; a finish
\* request for an older, consumed or unknown challenge is rejected.
C30_ChallengeWindow == [][C30_Once /\ C30_InTime]_vars

\* what holds instead: at most once, and before the sweep that follows the
\* fifth minute
C30_OnceBeforeSweep == [][C30_Once /\ C30_BeforeSweep]_vars

\* ------------------------------------------------- addresses, octet by octet

\* the octets the addresses of the model are built from, position by position
Octets1 == {0, 8, 10, 100, 127, 169, 172, 192, 255}
Octets2 == {0, 15, 16, 31, 32, 63, 64, 127, 128, 168, 254, 255}
Octets34 == {<<0, 0>>, <<0, 1>>, <<169, 254>>, <<255, 255>>}
V4Addrs == {<<a, b, cd[1], cd[2]>> : a \in Octets1, b \in Octets2, cd \in Octets34}

\* Ipv4Addr::is_loopback, is_private, is_link_local, is_broadcast, is_unspecified
is_loopback(o) == o[1] = 127
is_private(o) ==
    \/ o[1] = 10
    \/ o[1] = 172 /\ o[2] >= 16 /\ o[2] <= 31
    \/ o[1] = 192 /\ o[2] = 168
is_link_local(o) == o[1] = 169 /\ o[2] = 254
is_broadcast(o) == o = <<255, 255, 255, 255>>
is_unspecified(o) == o = <<0, 0, 0, 0>>

\* an IpAddr: V4 by its octets; V6 as ::1, ::, the IPv4-mapped form of a V4
\* address, or another address
V4(o) == [v |-> 4, form |-> "v4", octets |-> o]
V6(form, o) == [v |-> 6, form |-> form, octets |-> o]
NoOctets == <<0, 0, 0, 0>>
IpAddrs ==
    {V4(o) : o \in V4Addrs} \cup {V6("mapped", o) : o \in V4Addrs}
    \cup {V6(f, NoOctets) : f \in {"loopback", "unspecified", "link_local",
                                   "unique_local", "global"}}

\* is_private_ip on addresses given by their octets
is_private_ip_addr(ip) ==
    IF ip.v = 4
    THEN LET ipv4 == ip.octets
         IN  \/ is_loopback(ipv4)
             \/ is_private(ipv4)
             \/ is_link_local(ipv4)
             \/ is_broadcast(ipv4)
             \/ is_unspecified(ipv4)
             \/ ipv4 = <<169, 254, 169, 254>>
             \/ (ipv4[1] = 100 /\ ipv4[2] >= 64 /\ ipv4[2] <= 127)
    ELSE \/ ip.form = "loopback"
         \/ ip.form = "unspecified"
         \/ ip.form = "mapped" /\ LET v4 == ip.octets
                                  IN  \/ is_loopback(v4)
                                      \/ is_private(v4)
                                      \/ is_link_local(v4)
                                      \/ v4 = <<169, 254, 169, 254>>

\* is_safe_url for a URL whose host is a name that resolves to addrs
is_safe_url_addrs(scheme, addrs) ==
    IF scheme \notin {"http", "https"} THEN FALSE
    ELSE IF addrs = <<>> THEN FALSE
    ELSE \A i \in 1..Len(addrs) : ~is_private_ip_addr(addrs[i])

\* one evaluation of is_private_ip
eval_is_private_ip(ip) ==
    /\ last' = Obs("is_private_ip", 0, 0, 0, 0, <<ip>>,
                   IF is_private_ip_addr(ip) THEN 1 ELSE 0, <<>>, <<>>)
    /\ UNCHANGED <<db_vars, now, hub_vars, cache_vars, conn_vars, sfu_vars, reg_vars,
                   svc_vars>>

\* one evaluation of is_safe_url
eval_is_safe_url(scheme, addrs) ==
    /\ last' = Obs("is_safe_url", 0, 0, 0, 0, addrs,
                   IF is_safe_url_addrs(scheme, addrs) THEN 1 ELSE 0, <<>>, <<scheme>>)
    /\ UNCHANGED <<db_vars, now, hub_vars, cache_vars, conn_vars, sfu_vars, reg_vars,
                   svc_vars>>

\* what a name resolves to in the model
ResolvedAddrs ==
    {<<>>} \cup {<<ip>> : ip \in {V4(<<8, 0, 0, 1>>), V4(<<10, 0, 0, 1>>),
                                  V4(<<100, 64, 0, 1>>), V6("mapped", <<127, 0, 0, 1>>),
                                  V6("global", NoOctets)}}
    \cup {<<V4(<<8, 0, 0, 1>>), ip>> : ip \in {V4(<<192, 168, 0, 1>>),
                                               V4(<<8, 15, 0, 1>>),
                                               V6("mapped", <<169, 254, 169, 254>>)}}

NextIp ==
    \/ \E ip \in IpAddrs : eval_is_private_ip(ip)
    \/ \E scheme \in {"http", "https", "ftp", "file"}, addrs \in ResolvedAddrs :
          eval_is_safe_url(scheme, addrs)

SpecIp == Init /\ [][NextIp]_vars

\* the IPv4 addresses the specification lists
C31_Listed(o) ==
    \/ o[1] = 127
    \/ o[1] = 10 \/ (o[1] = 172 /\ o[2] \in 16..31) \/ (o[1] = 192 /\ o[2] = 168)
    \/ (o[1] = 169 /\ o[2] = 254)
    \/ o = <<255, 255, 255, 255>>
    \/ (o[1] = 100 /\ o[2] \in 64..127)
    \/ o = <<169, 254, 169, 254>>

C31_Evaluated(ip) == last.op = "is_private_ip" /\ last.arg = <<ip>>

\* every listed IPv4 address is private
C31_V4Blocked ==
    \A o \in V4Addrs : (C31_Listed(o) /\ C31_Evaluated(V4(o))) => last.status = 1

\* the IPv4-mapped form of every listed address is private
C31_MappedBlocked ==
    \A o \in V4Addrs : (C31_Listed(o) /\ C31_Evaluated(V6("mapped", o))) => last.status = 1

\* is_safe_url accepts only http and https URLs all of whose addresses are
\* non-private
C31_SafeUrl ==
    (last.op = "is_safe_url" /\ last.status = 1) =>
       /\ last.frames[1] \in {"http", "https"}
       /\ \A i \in 1..Len(last.arg) : ~is_private_ip_addr(last.arg[i])

\* C31: is_private_ip is true for every IPv4 address that is loopback, private,
\* link-local, broadcast, CGNAT or the metadata address, and for the
\* IPv4-mapped IPv6 form of each; is_safe_url accepts only http/https URLs
\* whose addresses are all non-private.
C31_PrivateAddresses == C31_V4Blocked /\ C31_MappedBlocked /\ C31_SafeUrl

\* what holds: the IPv4 half and the rule of is_safe_url
C31_V4AndSafeUrl == C31_V4Blocked /\ C31_SafeUrl

\* ------------------------------------------------- check_message_rate_limit

\* the users the limiter is called for
RateUsers == {1}

FullBucket == MESSAGE_RATE_LIMIT * RateScale
OneToken == RateScale

\* now.duration_since(last_refill): zero when last_refill is later than now
duration_since(t, earlier) == IF t >= earlier THEN t - earlier ELSE 0

\* .entry(user_id).or_insert_with(|| RateLimitState { tokens: LIMIT, last_refill: now })
or_insert_bucket(u, t) ==
    IF message_rate_limits[u] = NoBucket
    THEN [tokens |-> FullBucket, last_refill |-> t]
    ELSE message_rate_limits[u]

\* (tokens + elapsed * REFILL_PER_SEC).min(LIMIT)
refill(entry, t) ==
    Min(entry.tokens + duration_since(t, entry.last_refill) * MESSAGE_RATE_REFILL_PER_SEC,
        FullBucket)

\* a call that takes its token whether or not one is available
take_token_unchecked(entry, t) ==
    [tokens |-> refill(entry, t) - OneToken, last_refill |-> t]

\* the entry as the call leaves it
take_token(entry, t) ==
    [tokens |-> IF refill(entry, t) >= OneToken THEN refill(entry, t) - OneToken
                ELSE refill(entry, t),
     last_refill |-> t]

\* let now = Instant::now(), before the entry is locked
check_message_rate_limit_now(q, u) ==
    /\ rate_calls[q].pc = "idle"
    /\ rate_calls' = [rate_calls EXCEPT ![q] = [pc |-> "entry", user_id |-> u,
                                                 now |-> rate_clock]]
    /\ last' = Obs("now", q, u, 0, 0, rate_clock, 0, <<>>, <<>>)
    /\ UNCHANGED <<db_vars, now, hub_vars, cache_vars, conn_vars, sfu_vars, reg_vars,
                   svc_but_rate, message_rate_limits, rate_clock>>

\* the rest of the call, under the entry's shard lock
check_message_rate_limit(q) ==
    /\ rate_calls[q].pc = "entry"
    /\ LET u == rate_calls[q].user_id
           t == rate_calls[q].now
           entry == or_insert_bucket(u, t)
       IN /\ message_rate_limits' = [message_rate_limits EXCEPT ![u] = take_token(entry, t)]
          /\ last' = Obs("check_message_rate_limit", q, u, 0, 0,
                         duration_since(t, entry.last_refill),
                         IF refill(entry, t) >= OneToken THEN 1 ELSE 0, <<>>, <<>>)
    /\ rate_calls' = [rate_calls EXCEPT ![q] = NoRateCall]
    /\ UNCHANGED <<db_vars, now, hub_vars, cache_vars, conn_vars, sfu_vars, reg_vars,
                   svc_but_rate, rate_clock>>

RateTick ==
    /\ rate_clock < MaxRateClock
    /\ rate_clock' = rate_clock + 1
    /\ last' = Obs("tick", 0, 0, 0, 0, rate_clock + 1, 0, <<>>, <<>>)
    /\ UNCHANGED <<db_vars, now, hub_vars, cache_vars, conn_vars, sfu_vars, reg_vars,
                   svc_but_rate, message_rate_limits, rate_calls>>

NextBucket ==
    \/ \E q \in RateCalls, u \in RateUsers : check_message_rate_limit_now(q, u)
    \/ \E q \in RateCalls : check_message_rate_limit(q)
    \/ RateTick

SpecBucket == Init /\ [][NextBucket]_vars

\* the count of every bucket is within [0, 5]
C32_Range ==
    \A u \in Users :
       message_rate_limits[u] # NoBucket =>
          /\ message_rate_limits[u].tokens >= 0
          /\ message_rate_limits[u].tokens <= MESSAGE_RATE_LIMIT * RateScale

\* what one call does to the bucket of its user and what it returns
C32_Call ==
    \A q \in RateCalls :
       (rate_calls[q].pc = "entry" /\ rate_calls'[q].pc = "idle") =>
          LET u == rate_calls[q].user_id
              before == message_rate_limits[u]
              after == message_rate_limits'[u]
              start == IF before = NoBucket THEN MESSAGE_RATE_LIMIT * RateScale
                       ELSE before.tokens
              available == IF start + last'.arg * MESSAGE_RATE_REFILL_PER_SEC
                              <= MESSAGE_RATE_LIMIT * RateScale
                           THEN start + last'.arg * MESSAGE_RATE_REFILL_PER_SEC
                           ELSE MESSAGE_RATE_LIMIT * RateScale
          IN  /\ before = NoBucket => last'.arg = 0
              /\ before # NoBucket =>
                    last'.arg = IF rate_calls[q].now >= before.last_refill
                                THEN rate_calls[q].now - before.last_refill ELSE 0
              /\ last'.status = 1 <=> available >= RateScale
              /\ last'.status = 1 => after.tokens = available - RateScale
              /\ last'.status = 0 => after.tokens = available
              /\ \A u2 \in Users \ {u} : message_rate_limits'[u2] = message_rate_limits[u2]

\* C32: check_message_rate_limit keeps every token count within [0, 5]; the
\* first call creates a full bucket, every call refills by the elapsed seconds
\* capped at 5 and returns true iff at least 1 token is then available,
\* consuming exactly 1; a denied call consumes nothing, also when calls for the
\* same user overlap.
C32_TokenBucket == [][C32_Call]_vars /\ []C32_Range

\* a call is denied while another call for the same user is in progress
C32_Witness ==
    /\ last.op = "check_message_rate_limit" /\ last.status = 0
    /\ \E q \in RateCalls : rate_calls[q].pc = "entry" /\ rate_calls[q].user_id = last.actor
    /\ message_rate_limits[last.actor].tokens < RateScale

\* ------------------------------------- produce and consume, step by step

\* SfuService::produce up to the worker call: transports.get(..).clone()
produce_begin(q, caller, t) ==
    /\ sfu_calls[q].pc = "idle"
    /\ next_producer <= NumProducers
    /\ IF t \in transports
       THEN /\ sfu_calls' = [sfu_calls EXCEPT ![q] =
                               [pc |-> "worker", op |-> "produce", caller |-> caller,
                                transport |-> t, producer |-> 0]]
            /\ last' = Obs("produce_begin", 0, caller, 0, 0, t, 0, <<>>, <<>>)
       ELSE /\ sfu_calls' = sfu_calls
            /\ last' = Obs("produce", 0, caller, 0, 0, t, 500, <<>>,
                           <<"Transport not found">>)
    /\ UNCHANGED <<db_vars, now, hub_vars, cache_vars, conn_vars, sfu_vars, reg_vars,
                   svc_but_sfu>>

\* SfuService::produce after the worker has answered, then the route's
\* new_producer event
produce_finish(q, worker_ok) ==
    /\ sfu_calls[q].pc = "worker" /\ sfu_calls[q].op = "produce"
    /\ LET t == sfu_calls[q].transport
           p == next_producer
           found == connections[t].live
           status == IF worker_ok /\ found THEN 200 ELSE 500
           evs == IF status = 200
                  THEN <<Event("new_producer", connections[t].user_id,
                               connections[t].channel_id)>>
                  ELSE <<>>
       IN /\ producers' = IF worker_ok THEN producers \cup {p} ELSE producers
          /\ next_producer' = IF worker_ok THEN p + 1 ELSE next_producer
          /\ connections' = IF worker_ok /\ found
                            THEN [connections EXCEPT ![t].producers = @ \cup {p}]
                            ELSE connections
          /\ worker_calls' = worker_calls \cup
                 {[op |-> "produce", transport |-> t, caller |-> sfu_calls[q].caller,
                   owner |-> connections[t].user_id]}
          /\ broadcast_global(evs)
          /\ last' = Obs("produce", 0, sfu_calls[q].caller, connections[t].user_id, 0, t,
                         status, evs,
                         IF status = 200 THEN <<>>
                         ELSE IF worker_ok THEN <<"Connection not found">>
                         ELSE <<"Failed to produce">>)
    /\ sfu_calls' = [sfu_calls EXCEPT ![q] = NoSfuCall]
    /\ UNCHANGED <<db_vars, now, online_users, voice_states, channel_broadcasts,
                   pc, conn_user, current_channel, broadcast_rx, left_channels,
                   reg_vars, transports, channel_connections, user_connections,
                   consumers, next_transport, next_consumer, cache_vars, svc_but_sfu>>

\* SfuService::consume up to the worker call: transports.get and producers.get
consume_begin(q, caller, t, p) ==
    /\ sfu_calls[q].pc = "idle"
    /\ next_consumer <= NumConsumers
    /\ IF t \in transports /\ p \in producers
       THEN /\ sfu_calls' = [sfu_calls EXCEPT ![q] =
                               [pc |-> "worker", op |-> "consume", caller |-> caller,
                                transport |-> t, producer |-> p]]
            /\ last' = Obs("consume_begin", 0, caller, 0, 0, t, 0, <<>>, <<>>)
       ELSE /\ sfu_calls' = sfu_calls
            /\ last' = Obs("consume", 0, caller, 0, 0, t, 500, <<>>,
                           IF t \in transports THEN <<"Producer not found">>
                           ELSE <<"Transport not found">>)
    /\ UNCHANGED <<db_vars, now, hub_vars, cache_vars, conn_vars, sfu_vars, reg_vars,
                   svc_but_sfu>>

\* SfuService::consume after the worker has answered
consume_finish(q, worker_ok) ==
    /\ sfu_calls[q].pc = "worker" /\ sfu_calls[q].op = "consume"
    /\ LET t == sfu_calls[q].transport
           c == next_consumer
           status == IF worker_ok THEN 200 ELSE 500
       IN /\ consumers' = IF worker_ok THEN consumers \cup {c} ELSE consumers
          /\ next_consumer' = IF worker_ok THEN c + 1 ELSE next_consumer
          /\ connections' = IF worker_ok /\ connections[t].live
                            THEN [connections EXCEPT ![t].consumer_ids = @ \cup {c}]
                            ELSE connections
          /\ worker_calls' = worker_calls \cup
                 {[op |-> "consume", transport |-> t, caller |-> sfu_calls[q].caller,
                   owner |-> connections[t].user_id]}
          /\ last' = Obs("consume", 0, sfu_calls[q].caller, connections[t].user_id, 0, t,
                         status, <<>>,
                         IF worker_ok THEN <<>> ELSE <<"Failed to consume">>)
    /\ sfu_calls' = [sfu_calls EXCEPT ![q] = NoSfuCall]
    /\ UNCHANGED <<db_vars, now, hub_vars, conn_vars, reg_vars, transports,
                   channel_connections, user_connections, producers, next_transport,
                   next_producer, cache_vars, svc_but_sfu>>

\* every request of this specification is made by one user
OverlapCaller == 2

NextOverlap ==
    \/ \E c \in Chans : create_transport(OverlapCaller, c)
    \/ \E q \in SfuCalls, t \in Tids : produce_begin(q, OverlapCaller, t)
    \/ \E q \in SfuCalls, worker_ok \in BOOLEAN : produce_finish(q, worker_ok)
    \/ \E q \in SfuCalls, t \in Tids, p \in 1..NumProducers :
          consume_begin(q, OverlapCaller, t, p)
    \/ \E q \in SfuCalls, worker_ok \in BOOLEAN : consume_finish(q, worker_ok)
    \/ \E t \in Tids : close_connection(OverlapCaller, t)

SpecOverlap == Init /\ [][NextOverlap]_vars

\* the connections that own producer p, consumer c
C33_ProducerOwners(p) == {t \in Tids : connections[t].live /\ p \in connections[t].producers}
C33_ConsumerOwners(c) == {t \in Tids : connections[t].live /\ c \in connections[t].consumer_ids}

\* C33: every producer and every consumer in the registries is owned by
\* exactly one connection that is still in the connections index, whatever
\* the interleaving of produce, consume and close_connection.
C33_OwnedByLiveConnection ==
    /\ \A p \in producers : Cardinality(C33_ProducerOwners(p)) = 1
    /\ \A c \in consumers : Cardinality(C33_ConsumerOwners(c)) = 1

\* what holds: nothing has two owners, and a registered producer or consumer
\* without an owner was registered by a call that overlapped a close
C33_AtMostOneOwner ==
    /\ \A p \in producers : Cardinality(C33_ProducerOwners(p)) <= 1
    /\ \A c \in consumers : Cardinality(C33_ConsumerOwners(c)) <= 1

\* ----------------------------------------- leave_voice_channel, step by step

\* leave_voice_channel while it holds the guard of voice_states.get(channel):
\* the user is removed and is_empty() is read; the guard is then dropped
leave_voice_channel_get(q, u, c) ==
    /\ leave_calls[q].pc = "idle"
    /\ voice_states' = [voice_states EXCEPT ![c].users = @ \ {u}]
    /\ leave_calls' = [leave_calls EXCEPT ![q] =
          [pc |-> "dropped", user_id |-> u, channel_id |-> c,
           empty |-> voice_states[c].present /\ voice_states[c].users \ {u} = {}]]
    /\ last' = Obs("leave_voice_channel_get", 0, u, 0, c, 0, 0, <<>>, <<>>)
    /\ UNCHANGED <<db_vars, now, online_users, global_broadcast, channel_broadcasts,
                   cache_vars, conn_vars, sfu_vars, reg_vars, svc_but_leave>>

\* the rest of leave_voice_channel: voice_states.remove(channel) when the map
\* was seen empty, the SFU connections, the voice_user_left event
leave_voice_channel_remove(q) ==
    /\ leave_calls[q].pc = "dropped"
    /\ LET u == leave_calls[q].user_id
           c == leave_calls[q].channel_id
           evs == <<Event("voice_user_left", u, c)>>
       IN /\ voice_states' = IF leave_calls[q].empty
                             THEN [voice_states EXCEPT ![c] = NoVoice]
                             ELSE voice_states
          /\ SetRegistry(close_user_connections(c, u))
          /\ broadcast_global(evs)
          /\ last' = Obs("leave_voice_channel", 0, u, 0, c, 0, 200, evs, <<>>)
    /\ leave_calls' = [leave_calls EXCEPT ![q] = NoLeaveCall]
    /\ UNCHANGED <<db_vars, now, online_users, channel_broadcasts, pc, conn_user,
                   current_channel, broadcast_rx, left_channels, reg_vars,
                   next_transport, next_producer, next_consumer, worker_calls,
                   cache_vars, svc_but_leave>>

NextRace ==
    \/ \E k \in Sessions, token \in Clients : ws_handshake(k, token)
    \/ \E k \in Sessions : ws_connect(k)
    \/ \E k \in Sessions : ws_subscribe(k)
    \/ \E k \in Sessions : ws_close(k)
    \/ \E k \in Sessions : ws_cleanup_collect(k)
    \/ \E k \in Sessions, c \in Chans : ws_cleanup_channel(k, c)
    \/ \E k \in Sessions : ws_cleanup_presence(k)
    \/ \E u \in Talkers \cup Clients, c \in Chans : join_voice_channel(u, c)
    \/ \E q \in LeaveCalls, u \in Talkers, c \in Chans : leave_voice_channel_get(q, u, c)
    \/ \E q \in LeaveCalls : leave_voice_channel_remove(q)

SpecRace == Init /\ [][NextRace]_vars

\* the members of channel c
C34_Members(c) == IF voice_states[c].present THEN voice_states[c].users ELSE {}

\* the steps in which user u leaves or disconnects
C34_LeavesOrDisconnects(u) ==
    /\ last'.actor = u
    /\ last'.op \in {"leave_voice_channel_get", "leave_voice_channel",
                     "ws_cleanup_collect", "ws_cleanup_channel"}

C34_Step ==
    \A c \in Chans : \A u \in C34_Members(c) :
       (~voice_states'[c].present \/ u \notin voice_states'[c].users)
          => C34_LeavesOrDisconnects(u)

\* C34: a user whose join has returned and who has not since left or
\* disconnected is in voice_states under that channel, whatever other users'
\* leaves and disconnect cleanups do on the channel.
C34_JoinedStaysPresent == [][C34_Step]_vars

\* a member is lost only in the step that removes the channel's entry after
\* its map was seen empty
C34_LostOnlyByRemove ==
    [][\A c \in Chans : \A u \in C34_Members(c) :
         (~voice_states'[c].present \/ u \notin voice_states'[c].users)
            => \/ C34_LeavesOrDisconnects(u)
               \/ (last'.op = "leave_voice_channel" /\ last'.chan = c
                   /\ \E q \in LeaveCalls : leave_calls[q].empty)]_vars

\* ----------------------------------- channel receivers and channel deletion

\* connection k holds a receiver whose sender has been dropped
Closed(k) == k \in rx_closed /\ broadcast_rx[k].sub

\* the receivers a send on the channel's current sender reaches
LiveRx == [k \in Conns |-> IF Closed(k) THEN NoChannelRx ELSE broadcast_rx[k]]

\* the receivers after a send that changed the live ones to rx
MergeRx(rx) == [k \in Conns |-> IF Closed(k) THEN broadcast_rx[k] ELSE rx[k]]

\* routes/channels.rs delete_channel: the rows, the sender, channel_deleted
delete_channel(u, c) ==
    /\ LET status == IF ~require_role(user_role[u], Admin) THEN 403
                     ELSE IF c \in deleted_channels THEN 404
                     ELSE 200
           evs == IF status = 200 THEN <<Event("channel_deleted", 0, c)>> ELSE <<>>
       IN /\ messages' = IF status = 200
                         THEN SelectSeq(messages, LAMBDA m : m.channel_id # c)
                         ELSE messages
          /\ deleted_channels' = IF status = 200 THEN deleted_channels \cup {c}
                                 ELSE deleted_channels
          /\ channel_broadcasts' = IF status = 200
                                   THEN [channel_broadcasts EXCEPT
                                           ![c] = [present |-> FALSE, log |-> <<>>]]
                                   ELSE channel_broadcasts
          /\ rx_closed' = IF status = 200 /\ channel_broadcasts[c].present
                          THEN rx_closed \cup {k \in Conns : broadcast_rx[k].sub
                                                             /\ broadcast_rx[k].chan = c}
                          ELSE rx_closed
          /\ broadcast_global(evs)
          /\ last' = Obs("delete_channel", 0, u, 0, c, 0, status, evs, <<>>)
    /\ UNCHANGED <<user_role, user_order, ban_expires, mute_expires, invites,
                   registration_mode, mod_log, next_message, attachments,
                   preview_fetches, posts, now, online_users, voice_states,
                   cache_vars, pc, conn_user, current_channel, broadcast_rx,
                   left_channels, sfu_vars, reg_vars, svc_but_chan>>

\* the "join" frame where channels can be deleted
handle_join(k, c) ==
    /\ pc[k] = "open"
    /\ LET subd == SubscribeChannel(channel_broadcasts, broadcast_rx, k, c)
       IN /\ channel_broadcasts' = subd.planes
          /\ broadcast_rx' = subd.rx
    /\ current_channel' = [current_channel EXCEPT ![k] = c]
    /\ rx_closed' = rx_closed \ {k}
    /\ last' = Obs("ws_join", k, conn_user[k], 0, c, 0, 0, <<>>, <<>>)
    /\ UNCHANGED <<db_vars, now, online_users, voice_states, global_broadcast, pc,
                   conn_user, global_rx, left_channels, sfu_vars, reg_vars,
                   cache_vars, svc_but_chan, deleted_channels>>

\* the "leave" frame where channels can be deleted
handle_leave(k) ==
    /\ pc[k] = "open"
    /\ current_channel' = [current_channel EXCEPT ![k] = NoChan]
    /\ broadcast_rx' = [broadcast_rx EXCEPT ![k] = NoChannelRx]
    /\ rx_closed' = rx_closed \ {k}
    /\ last' = Obs("ws_leave", k, conn_user[k], 0, 0, 0, 0, <<>>, <<>>)
    /\ UNCHANGED <<db_vars, now, hub_vars, pc, conn_user, global_rx, left_channels,
                   sfu_vars, reg_vars, cache_vars, svc_but_chan, deleted_channels>>

\* the "message" frame where channels can be deleted: the mute check, the
\* auto-subscribe, then create_message and the message event
handle_chat_message(k, c, content) ==
    /\ pc[k] = "open"
    /\ LET u == conn_user[k]
           muted == is_muted(u)
           resub == current_channel[k] # c
           subd == IF resub
                   THEN SubscribeChannel(channel_broadcasts, LiveRx, k, c)
                   ELSE [planes |-> channel_broadcasts, rx |-> LiveRx]
           made == create_message(u, c, content, 0, NoAttachments, FALSE)
           valid == made.status = 200 /\ c \notin deleted_channels
           evs == IF valid THEN <<Event("message", u, c)>> ELSE <<>>
           sent == ChannelAfter(subd.planes, subd.rx, c, evs)
       IN /\ messages' = IF ~muted /\ valid THEN Append(messages, made.message)
                         ELSE messages
          /\ next_message' = IF ~muted /\ valid THEN next_message + 1 ELSE next_message
          /\ preview_fetches' = IF ~muted /\ valid THEN FetchesAfter(made.message)
                                ELSE preview_fetches
          /\ current_channel' = IF muted THEN current_channel
                                ELSE [current_channel EXCEPT ![k] = c]
          /\ channel_broadcasts' = IF muted THEN channel_broadcasts ELSE sent.planes
          /\ broadcast_rx' = IF muted THEN broadcast_rx
                             ELSE [k2 \in Conns |->
                                     IF Closed(k2) /\ ~(k2 = k /\ resub)
                                     THEN broadcast_rx[k2] ELSE sent.rx[k2]]
          /\ rx_closed' = IF ~muted /\ resub THEN rx_closed \ {k} ELSE rx_closed
          /\ last' = Obs("ws_message", k, u, 0, c, IF valid THEN 1 ELSE 0,
                         IF muted THEN 403 ELSE IF valid THEN 200
                         ELSE IF made.status = 200 THEN 500 ELSE made.status,
                         IF muted THEN <<>> ELSE evs, <<>>)
    /\ UNCHANGED <<user_role, user_order, ban_expires, mute_expires, invites,
                   registration_mode, mod_log, attachments, posts, now, online_users,
                   voice_states, global_broadcast, pc, conn_user, global_rx,
                   left_channels, sfu_vars, reg_vars, cache_vars, svc_but_chan,
                   deleted_channels>>

\* the broadcast_rx.recv() arm of the loop where channels can be deleted:
\* a value, Lagged, or Closed
channel_recv(k, send_ok) ==
    /\ pc[k] = "open"
    /\ broadcast_rx[k].sub
    /\ Closed(k) \/ broadcast_rx[k].lagged \/ broadcast_rx[k].behind > 0
    /\ IF Closed(k)
       THEN /\ broadcast_rx' = [broadcast_rx EXCEPT ![k] = NoChannelRx]
            /\ rx_closed' = rx_closed \ {k}
            /\ pc' = pc
            /\ last' = Obs("ws_channel_closed", k, conn_user[k], 0, broadcast_rx[k].chan,
                           0, 0, <<>>, <<>>)
       ELSE IF broadcast_rx[k].lagged
       THEN /\ broadcast_rx' = [broadcast_rx EXCEPT ![k].lagged = FALSE]
            /\ rx_closed' = rx_closed
            /\ pc' = pc
            /\ last' = Obs("ws_channel_recv", k, conn_user[k], 0, broadcast_rx[k].chan,
                           0, 0, <<>>, IF send_ok THEN <<SyncRequired>> ELSE <<>>)
       ELSE LET c == broadcast_rx[k].chan
                ev == NextValue(channel_broadcasts[c].log, broadcast_rx[k].behind)
            IN /\ broadcast_rx' = [broadcast_rx EXCEPT ![k].behind = @ - 1]
               /\ rx_closed' = rx_closed
               /\ pc' = IF send_ok THEN pc ELSE [pc EXCEPT ![k] = "cleanup"]
               /\ last' = Obs("ws_channel_recv", k, conn_user[k], 0, c, 0, 0, <<>>,
                              IF send_ok THEN <<ev>> ELSE <<>>)
    /\ UNCHANGED <<db_vars, now, hub_vars, conn_user, global_rx, current_channel,
                   left_channels, sfu_vars, reg_vars, cache_vars, svc_but_chan,
                   deleted_channels>>

NextSub ==
    \/ \E k \in Sessions, token \in Clients : ws_handshake(k, token)
    \/ \E k \in Sessions : ws_connect(k)
    \/ \E k \in Sessions : ws_subscribe(k)
    \/ \E k \in Sessions : ws_close(k)
    \/ \E k \in Sessions : ws_cleanup_collect(k)
    \/ \E k \in Sessions : ws_cleanup_presence(k)
    \/ \E k \in Sessions, send_ok \in BOOLEAN : ws_global_recv(k, send_ok)
    \/ \E k \in Sessions, c \in Chans : handle_join(k, c)
    \/ \E k \in Sessions : handle_leave(k)
    \/ \E k \in Sessions, c \in Chans :
          Len(messages) < MaxMessages /\ handle_chat_message(k, c, Text(1, 0))
    \/ \E k \in Sessions, send_ok \in BOOLEAN : channel_recv(k, send_ok)
    \/ \E u \in {1} \cup Clients, c \in Chans : delete_channel(u, c)

SpecSub == Init /\ [][NextSub]_vars

C35_InLoop(k) == pc[k] = "open"

\* the receiver is set exactly when current_channel is set
C35_SetTogether(k) == broadcast_rx[k].sub <=> current_channel[k] # NoChan

\* the receiver is subscribed to the live sender of current_channel
C35_OnLiveSender(k) ==
    broadcast_rx[k].sub =>
       /\ broadcast_rx[k].chan = current_channel[k]
       /\ channel_broadcasts[broadcast_rx[k].chan].present
       /\ ~Closed(k)

\* C35: for every connection, after any sequence of join, leave and chat
\* frames and channel deletions, the channel receiver is set iff
\* current_channel is set, and it is subscribed to the live sender of exactly
\* that channel.
C35_ReceiverFollowsChannel ==
    \A k \in Conns : C35_InLoop(k) => (C35_SetTogether(k) /\ C35_OnLiveSender(k))

\* what holds: a set receiver belongs to current_channel, and it is on the
\* live sender unless that channel was deleted after the subscription
C35_ReceiverOfCurrentChannel ==
    \A k \in Conns :
       (C35_InLoop(k) /\ broadcast_rx[k].sub) =>
          /\ broadcast_rx[k].chan = current_channel[k]
          /\ (~Closed(k) => channel_broadcasts[broadcast_rx[k].chan].present)

\* ------------------------------------------------------------ link previews

\* the events of a message on its channel's plane
MessageEvent(type, message_id, c) == [type |-> type, user_id |-> message_id, channel_id |-> c]

\* the "message" frame, with the publications on the plane recorded
chat_message(k, c, content) ==
    /\ pc[k] = "open"
    /\ LET u == conn_user[k]
           muted == is_muted(u)
           subd == IF current_channel[k] # c
                   THEN SubscribeChannel(channel_broadcasts, broadcast_rx, k, c)
                   ELSE [planes |-> channel_broadcasts, rx |-> broadcast_rx]
           made == create_message(u, c, content, 0, NoAttachments, FALSE)
           valid == made.status = 200
           evs == IF valid THEN <<MessageEvent("message", made.message.id, c)>> ELSE <<>>
           sent == ChannelAfter(subd.planes, subd.rx, c, evs)
       IN /\ messages' = IF ~muted /\ valid THEN Append(messages, made.message)
                         ELSE messages
          /\ next_message' = IF ~muted /\ valid THEN next_message + 1 ELSE next_message
          /\ preview_fetches' = IF ~muted /\ valid THEN FetchesAfter(made.message)
                                ELSE preview_fetches
          /\ current_channel' = IF muted THEN current_channel
                                ELSE [current_channel EXCEPT ![k] = c]
          /\ channel_broadcasts' = IF muted THEN channel_broadcasts ELSE sent.planes
          /\ broadcast_rx' = IF muted THEN broadcast_rx ELSE sent.rx
          /\ announced' = IF ~muted /\ valid /\ subd.planes[c].present
                          THEN announced \cup {made.message.id} ELSE announced
          /\ last' = Obs("ws_message", k, u, 0, c, IF valid THEN made.message.id ELSE 0,
                         IF muted THEN 403 ELSE made.status,
                         IF muted THEN <<>> ELSE evs, <<>>)
    /\ UNCHANGED <<user_role, user_order, ban_expires, mute_expires, invites,
                   registration_mode, mod_log, attachments, posts, now, online_users,
                   voice_states, global_broadcast, pc, conn_user, global_rx,
                   left_channels, sfu_vars, reg_vars, cache_vars, svc_but_preview,
                   previewed>>

\* the task of spawn_preview_fetch for message m ends; found says whether a
\* preview was fetched and attached
preview_ready(m, found) ==
    /\ m \in preview_fetches
    /\ LET c == get_message_by_id(m).channel_id
           evs == IF found THEN <<MessageEvent("link_preview_ready", m, c)>> ELSE <<>>
       IN /\ broadcast_channel(c, evs)
          /\ previewed' = IF found /\ channel_broadcasts[c].present
                          THEN [previewed EXCEPT ![m] = @ + 1] ELSE previewed
          /\ last' = Obs("preview_ready", 0, 0, m, c, 0, 0, evs, <<>>)
    /\ preview_fetches' = preview_fetches \ {m}
    /\ UNCHANGED <<user_role, user_order, ban_expires, mute_expires, invites,
                   registration_mode, mod_log, messages, next_message, attachments,
                   posts, now, online_users, voice_states, global_broadcast, cache_vars,
                   pc, conn_user, global_rx, current_channel, left_channels, sfu_vars,
                   reg_vars, svc_but_preview, announced>>

NextPreview ==
    \/ \E k \in Sessions, token \in Clients : ws_handshake(k, token)
    \/ \E k \in Sessions : ws_connect(k)
    \/ \E k \in Sessions : ws_subscribe(k)
    \/ \E k \in Sessions, c \in Chans : ws_join(k, c)
    \/ \E k \in Sessions : ws_leave(k)
    \/ \E k \in Sessions, send_ok \in BOOLEAN : ws_channel_recv(k, send_ok)
    \/ \E k \in Sessions, c \in Chans :
          Len(messages) < MaxMessages /\ chat_message(k, c, Text(1, 0))
    \/ \E u \in Writers, c \in Chans :
          Len(messages) < MaxMessages /\ send_message(1, u, c, Text(1, 0), 0, NoAttachments)
    \/ \E m \in 1..NumMessageIds, found \in BOOLEAN : preview_ready(m, found)

SpecPreview == Init /\ [][NextPreview]_vars

\* a link_preview_ready event was sent for m only after its message event
C36_AfterMessage == \A m \in 1..NumMessageIds : previewed[m] > 0 => m \in announced

\* at most one link_preview_ready event per message
C36_AtMostOnce == \A m \in 1..NumMessageIds : previewed[m] <= 1

\* C36: on a channel's plane link_preview_ready for a message is never
\* published before the message event of that message, and at most once per
\* created message.
C36_PreviewFollowsMessage == C36_AfterMessage /\ C36_AtMostOnce

\* ------------------------------------------------------- messages and bans

NextBan ==
    \/ \E k \in Sessions, token \in Clients : ws_handshake(k, token)
    \/ \E k \in Sessions : ws_connect(k)
    \/ \E k \in Sessions : ws_subscribe(k)
    \/ \E k \in Sessions : ws_close(k)
    \/ \E k \in Sessions, send_ok \in BOOLEAN : ws_global_recv(k, send_ok)
    \/ \E k \in Sessions : ws_cleanup_collect(k)
    \/ \E k \in Sessions : ws_cleanup_presence(k)
    \/ \E k \in Sessions, c \in Chans :
          Len(messages) < MaxMessages /\ ws_message(k, c, Text(1, 0), 0)
    \/ \E u \in Clients, c \in Chans :
          Len(messages) < MaxMessages /\ send_message(1, u, c, Text(1, 0), 0, NoAttachments)
    \/ \E target \in Clients, hours \in Durations : ban_user(1, target, hours)
    \/ \E target \in Clients : unban_user(1, target)
    \/ Tick

SpecBan == Init /\ [][NextBan]_vars

\* the step creates a message
C37_Created == Len(messages') = Len(messages) + 1

C37_Step == C37_Created => ~get_active_ban(messages'[Len(messages')].author_id)

\* C37: while a user has an active ban, no request with a token of that user
\* creates a message, neither REST send_message nor a WebSocket chat frame.
C37_BannedCreatesNothing == [][C37_Step]_vars

\* a handshake of a user with an active ban is refused
C37_HandshakeStep ==
    last'.op = "ws_handshake" /\ get_active_ban(last'.actor) => last'.status = 403

C37_BannedHandshakeRefused == [][C37_HandshakeStep]_vars

\* ------------------------------------------- registration and invite uses

\* auth_routes::register as one uninterrupted call: use_invite_code in
\* invite_only mode, get_user_count, create_user
register(u, code) ==
    /\ (code \in Codes /\ invites[code].max_uses = NoMax)
         => invites[code].uses < MaxInviteUses
    /\ LET used == use_invite_code(code)
           gate == IF registration_mode # "invite_only" THEN 200
                   ELSE IF code = NoCode THEN 403
                   ELSE IF ~used.ok THEN 400
                   ELSE 200
           created == create_user(u, IF get_user_count = 0 THEN Owner ELSE Member)
           status == IF gate # 200 THEN gate ELSE IF created.ok THEN 200 ELSE 409
       IN /\ invites' = IF registration_mode = "invite_only" /\ gate = 200
                        THEN used.invites ELSE invites
          /\ user_role' = IF gate = 200 THEN created.user_role ELSE user_role
          /\ user_order' = IF gate = 200 THEN created.user_order ELSE user_order
          /\ last' = Obs("register", 0, u, 0, 0, code, status, <<>>, <<>>)
    /\ UNCHANGED <<ban_expires, mute_expires, registration_mode, mod_log,
                   msg_vars, now, hub_vars, conn_vars, sfu_vars, reg_vars,
                   cache_vars, svc_vars>>

NextConflict ==
    \/ \E u \in Applicants, code \in Codes \cup {NoCode} : register(u, code)
    \/ \E code \in Codes, max \in {NoMax} \cup (0..MaxInviteUses), hours \in Durations :
          create_invite(1, code, max, hours)
    \/ \E code \in Codes : revoke_invite(1, code)
    \/ \E value \in Modes : update_setting(1, value)
    \/ Tick

SpecConflict == InitAuth /\ [][NextConflict]_vars

C38_Step == (last'.op = "register" /\ last'.status # 200) => invites' = invites

\* C38: a register call that fails leaves the uses count of the invite
\* unchanged: an invite use is consumed only by a registration that creates a
\* user.
C38_FailedRegisterKeepsUses == [][C38_Step]_vars

C38_RefusedStep ==
    (last'.op = "register" /\ last'.status \in {400, 403}) =>
        /\ invites' = invites
        /\ user_role' = user_role

\* a register call refused for its invite code changes neither table
C38_RefusedKeepsUses == [][C38_RefusedStep]_vars

\* --------------------------------------------------------------- reactions

MAX_EMOJI_LENGTH == 32

\* an emoji is modelled by its length: empty, one valid emoji, one too long
Emojis == {0, 1, MAX_EMOJI_LENGTH + 1}

ReactionEvent(type, message_id, emoji, user_id, c) ==
    [type |-> type, message_id |-> message_id, emoji |-> emoji, user_id |-> user_id,
     channel_id |-> c]

\* INSERT INTO reactions ... ON CONFLICT DO NOTHING
db_add_reaction(message_id, user_id, emoji) == reactions \cup {<<message_id, user_id, emoji>>}

\* DELETE FROM reactions WHERE message_id = $1 AND user_id = $2 AND emoji = $3
db_remove_reaction(message_id, user_id, emoji) == reactions \ {<<message_id, user_id, emoji>>}

reaction_done(op, u, c, message_id, emoji, status, evs) ==
    /\ broadcast_channel(c, evs)
    /\ last' = Obs(op, 0, u, message_id, c, emoji, status, evs, <<>>)
    /\ UNCHANGED <<db_vars, now, online_users, voice_states, global_broadcast,
                   cache_vars, pc, conn_user, global_rx, current_channel,
                   left_channels, sfu_vars, reg_vars, svc_but_reactions>>

\* routes/messages.rs add_reaction
add_reaction(u, c, message_id, emoji) ==
    LET status == IF emoji = 0 \/ emoji > MAX_EMOJI_LENGTH THEN 400
                  ELSE verify_message_in_channel(message_id, c)
        evs == IF status = 200
               THEN <<ReactionEvent("reaction_added", message_id, emoji, u, c)>>
               ELSE <<>>
    IN /\ reactions' = IF status = 200 THEN db_add_reaction(message_id, u, emoji)
                       ELSE reactions
       /\ reaction_done("add_reaction", u, c, message_id, emoji, status, evs)

\* routes/messages.rs remove_reaction
remove_reaction(u, c, message_id, emoji) ==
    LET status == verify_message_in_channel(message_id, c)
        evs == IF status = 200
               THEN <<ReactionEvent("reaction_removed", message_id, emoji, u, c)>>
               ELSE <<>>
    IN /\ reactions' = IF status = 200 THEN db_remove_reaction(message_id, u, emoji)
                       ELSE reactions
       /\ reaction_done("remove_reaction", u, c, message_id, emoji, status, evs)

\* the messages that get reactions
MaxReacted == 1

NextReact ==
    \/ \E k \in Sessions, token \in Clients : ws_handshake(k, token)
    \/ \E k \in Sessions : ws_connect(k)
    \/ \E k \in Sessions : ws_subscribe(k)
    \/ \E k \in Sessions, c \in Chans : ws_join(k, c)
    \/ \E k \in Sessions : ws_leave(k)
    \/ \E k \in Sessions, send_ok \in BOOLEAN : ws_channel_recv(k, send_ok)
    \/ \E u \in Clients, c \in Chans :
          Len(messages) < MaxReacted /\ send_message(1, u, c, Text(1, 0), 0, NoAttachments)
    \/ \E u \in Clients, c \in Chans, m \in 1..MaxReacted, emoji \in Emojis :
          add_reaction(u, c, m, emoji)
    \/ \E u \in Clients, c \in Chans, m \in 1..MaxReacted, emoji \in Emojis :
          remove_reaction(u, c, m, emoji)

SpecReact == Init /\ [][NextReact]_vars

\* the step sent an event of the type on a channel plane that has receivers
C39_Published(type) ==
    /\ last'.emitted # <<>>
    /\ last'.emitted[1].type = type
    /\ channel_broadcasts[last'.chan].present

C39_Row == <<last'.target, last'.actor, last'.arg>>

C39_Step ==
    /\ C39_Published("reaction_added") => (C39_Row \notin reactions /\ C39_Row \in reactions')
    /\ C39_Published("reaction_removed") => (C39_Row \in reactions /\ C39_Row \notin reactions')

\* C39: reaction_added is published only when a reaction row was inserted and
\* reaction_removed only when a row was deleted, so the events of one (message,
\* user, emoji) alternate and their balance equals the presence of the row.
C39_EventsFollowRows == [][C39_Step]_vars

C39_TableStep ==
    /\ C39_Published("reaction_added") => C39_Row \in reactions'
    /\ C39_Published("reaction_removed") => C39_Row \notin reactions'
    /\ (last'.op \in {"add_reaction", "remove_reaction"} /\ last'.status # 200) =>
           (reactions' = reactions /\ last'.emitted = <<>>)

\* after a published reaction_added the row is present, after a published
\* reaction_removed it is absent, and a refused call changes and publishes nothing
C39_EventsMatchTable == [][C39_TableStep]_vars

\* ------------------------------------------------- voice joins and leaves

NextLeave ==
    \/ \E k \in Sessions, token \in Clients : ws_handshake(k, token)
    \/ \E k \in Sessions : ws_connect(k)
    \/ \E k \in Sessions : ws_subscribe(k)
    \/ \E k \in Sessions : ws_close(k)
    \/ \E k \in Sessions, send_ok \in BOOLEAN : ws_global_recv(k, send_ok)
    \/ \E k \in Sessions : ws_cleanup_collect(k)
    \/ \E k \in Sessions, c \in Chans : ws_cleanup_channel(k, c)
    \/ \E k \in Sessions : ws_cleanup_presence(k)
    \/ \E u \in Talkers, c \in Chans : join_voice_channel(u, c)
    \/ \E u \in Talkers, c \in Chans : leave_voice_channel(u, c)

SpecLeave == Init /\ [][NextLeave]_vars

\* the step sent an event of the type to the receivers of the global plane
C40_Published(type) ==
    /\ last'.emitted # <<>>
    /\ last'.emitted[1].type = type
    /\ \E k \in Sessions : global_rx[k].sub

\* the step, or the cleanup it belongs to, removed the user from the channel
C40_Removed ==
    IF last'.op = "ws_cleanup_channel" THEN last'.chan \in left_channels[last'.conn]
    ELSE last'.actor \in C34_Members(last'.chan)

C40_Step ==
    /\ C40_Published("voice_user_left") => C40_Removed
    /\ C40_Published("voice_user_joined") => last'.actor \notin C34_Members(last'.chan)

\* C40: voice_user_left for (user, channel) is published only when that user
\* was removed from that channel's voice_states, so for every (user, channel)
\* voice_user_joined and voice_user_left alternate, starting with
\* voice_user_joined.
C40_LeftFollowsRemoval == [][C40_Step]_vars

\* the members of channel c after the step
C40_MembersAfter(c) == IF voice_states'[c].present THEN voice_states'[c].users ELSE {}

C40_CleanupStep ==
    /\ (last'.op = "ws_cleanup_channel" /\ C40_Published("voice_user_left")) => C40_Removed
    /\ last'.op = "leave_voice_channel" => last'.actor \notin C40_MembersAfter(last'.chan)
    /\ last'.op = "join_voice_channel" => last'.actor \in C40_MembersAfter(last'.chan)

\* the cleanup of a connection publishes voice_user_left only for the channels
\* it removed the user from; after a leave the user is not in the channel and
\* after a join the user is
C40_CleanupFollowsRemoval == [][C40_CleanupStep]_vars
====
